---- MODULE Spec2Model ----
(***************************************************************************)
(* rust-ceda: the `update` command (src/cli/command/update.rs) and the     *)
(* CEDA client it drives (src/ceda_client.rs).                             *)
(*                                                                         *)
(* update() resolves the catalog in four stages (counties, stations, data  *)
(* folders, data files) and then downloads every resolved file.  Each      *)
(* stage spawns one tokio task per input item and awaits join_all.         *)
(*                                                                         *)
(* Strings are modelled as sequences of tokens: "/" is a token of its own, *)
(* so is ".csv"; every other token stands for a run of characters that     *)
(* holds neither.                                                          *)
(***************************************************************************)
EXTENDS Integers, Sequences, FiniteSets, TLC

VARIABLES
    token,         \* the CEDA_ACCESS_TOKEN of the environment
    pc,            \* "new" while update() builds its client, then the stage
                   \* update() is in, or was in when it returned
    ret,           \* "none" while update() runs, then how it ended: "Ok", "Err", "Panic"
    countyLinks,   \* Vec<String> returned by get_county_links
    stationLinks,  \* Vec<String> returned by get_station_links
    folderLinks,   \* Vec<String> returned by get_data_folder_links
    fileLinks,     \* Vec<String> returned by get_data_file_links
    tasks,         \* per stage, the JoinHandles it spawned, in spawn order
    store,         \* the raw data directory: file name -> state of the file
    requests,      \* url -> number of GET requests the client has sent to it
    progress,      \* per stage, its ProgressBar: length and pb.inc(1) calls so far
    previous,      \* the run of update() before this one, if there was one
    dataFiles,     \* process: the files list_data_files returns, as their lines
    db,            \* process: the tables of weather.sqlite and their rows
    proc,          \* process: where process() is, and how it ended
    response,      \* SpecSelect: what the GET of a station page came back with
    selected       \* SpecSelect: the value get_data_folder_link returned for it

vars == <<token, pc, ret, countyLinks, stationLinks, folderLinks, fileLinks,
          tasks, store, requests, progress, previous, dataFiles, db, proc,
          response, selected>>

pipelineVars == <<token, pc, ret, countyLinks, stationLinks, folderLinks,
                  fileLinks, tasks, store, requests, progress, previous>>

processVars == <<dataFiles, db, proc>>

selectVars == <<response, selected>>

----------------------------------------------------------------------------
(* Bounds of the modelled catalog and of the enumerated documents.         *)

NumCounties == 2

NumStations == 3

NumFiles == 3

BodyChunks == 2

MaxAnchors == 3

MaxLinks == 2

Counties == 1 .. NumCounties

Stations == 1 .. NumStations

Files == 1 .. NumFiles

Digit == <<"1", "2", "3", "4", "5", "6", "7", "8", "9">>

----------------------------------------------------------------------------
(* Results: Rust's Result<T, AppError>, plus the JoinError of a task that  *)
(* panicked.  `links` is the Ok payload (a Vec<String>; a single String is *)
(* a Vec of one).                                                          *)

Pending == [kind |-> "Pending", err |-> "", links |-> <<>>]

Ok(links) == [kind |-> "Ok", err |-> "", links |-> links]

Err(e) == [kind |-> "Err", err |-> e, links |-> <<>>]

JoinError == [kind |-> "Panic", err |-> "JoinError", links |-> <<>>]

(* Option<String>: <<>> is None, <<s>> is Some(s). *)
None == <<>>

Some(s) == <<s>>

----------------------------------------------------------------------------
(* Documents.  An anchor is an <a> element: its href attribute (an Option) *)
(* and its descendant text nodes in document order.  A document holds the  *)
(* anchors each of the two selectors of the client matches.                *)

Anchor(href, texts) == [href |-> href, texts |-> texts]

Doc(results, table) == [results |-> results, table |-> table]

(* document.select(&selector).filter_map(|e| e.value().attr("href"))       *)
(*     .map(|href| href.to_string())                                       *)
SelectHrefs(anchors) ==
    LET withHref == SelectSeq(anchors, LAMBDA a : a.href # None)
    IN  [i \in 1 .. Len(withHref) |-> withHref[i].href[1]]

(* element.text().any(|text| text == t) *)
HasText(a, t) == \E k \in DOMAIN a.texts : a.texts[k] = t

QCV1 == "qc-version-1"

QCV0 == "qc-version-0"

(* Mutant: the selection looks at the href, not at the text. *)
extract_by_href(doc) ==
    LET matching ==
            SelectSeq(doc.results,
                      LAMBDA a : a.href # None
                                 /\ \E k \in DOMAIN a.href[1] : a.href[1][k] = QCV1)
    IN  IF matching = <<>> THEN None ELSE matching[1].href

(* extract_qc_version_1_link: the href (an Option) of the first "#results  *)
(* a" element one of whose text nodes is "qc-version-1"; None when there   *)
(* is no such element.                                                     *)
extract_qc_version_1_link(doc) ==
    LET matching == SelectSeq(doc.results, LAMBDA a : HasText(a, QCV1))
    IN  IF matching = <<>> THEN None ELSE matching[1].href

----------------------------------------------------------------------------
(* Transport.  A response is what one GET comes back with: the request     *)
(* itself fails, the status is not 2xx, the body cannot be read, or the    *)
(* body arrives.                                                           *)

FailedResponses ==
    { [status |-> st, doc |-> Doc(<<>>, <<>>)] :
        st \in {"send_error", "non_2xx", "body_error"} }

OkResponse(doc) == [status |-> "200", doc |-> doc]

(* CedaClient::get_document *)
get_document(resp) ==
    IF resp.status = "200" THEN "Ok" ELSE "GenericError"

(* Mutant: the pattern without its `^` anchor. *)
re_start_unanchored(link) ==
    \E k \in 1 .. Len(link) - 1 : link[k] = "/" /\ link[k + 1] = "badc"

(* Regex::new(r"^/badc") and Regex::new(r"change_log_station_files$") *)
re_start(link) == Len(link) >= 2 /\ link[1] = "/" /\ link[2] = "badc"

re_end(link) == Len(link) >= 1 /\ link[Len(link)] = "change_log_station_files"

(* CedaClient::get_county_links: get_document(..).unwrap() panics on a     *)
(* failed fetch.                                                           *)
get_county_links(resp) ==
    IF get_document(resp) # "Ok" THEN JoinError
    ELSE Ok(SelectSeq(SelectHrefs(resp.doc.results),
                      LAMBDA link : re_start(link) /\ ~re_end(link)))

(* Mutant: the hrefs are made absolute before they are returned. *)
get_station_links_absolute(resp) ==
    IF get_document(resp) # "Ok" THEN JoinError
    ELSE LET hrefs == SelectHrefs(resp.doc.table)
         IN  Ok([i \in DOMAIN hrefs |-> <<"https://data.ceda.ac.uk">> \o hrefs[i]])

(* CedaClient::get_station_links *)
get_station_links(resp) ==
    IF get_document(resp) # "Ok" THEN JoinError
    ELSE Ok(SelectHrefs(resp.doc.table))

(* Mutant: falls back to the "qc-version-0" folder when there is no       *)
(* "qc-version-1" one.                                                     *)
get_data_folder_link_fallback(resp) ==
    IF get_document(resp) # "Ok" THEN Err("DocumentFetchError")
    ELSE LET link == extract_qc_version_1_link(resp.doc)
             old  == SelectSeq(resp.doc.results,
                               LAMBDA a : HasText(a, QCV0) /\ a.href # None)
         IN  IF link # None THEN Ok(<<link[1]>>)
             ELSE IF old # <<>> THEN Ok(<<old[1].href[1]>>)
             ELSE Err("QCV1NotFound")

(* Mutant: a station without the folder resolves to no link at all. *)
get_data_folder_link_skip(resp) ==
    IF get_document(resp) # "Ok" THEN Err("DocumentFetchError")
    ELSE LET link == extract_qc_version_1_link(resp.doc)
         IN  IF link = None THEN Ok(<<>>) ELSE Ok(<<link[1]>>)

(* CedaClient::get_data_folder_link.  The document is handed over as       *)
(* document.html() and parsed again; the anchors are taken to survive it.  *)
get_data_folder_link(resp) ==
    IF get_document(resp) # "Ok" THEN Err("DocumentFetchError")
    ELSE LET link == extract_qc_version_1_link(resp.doc)
         IN  IF link = None THEN Err("QCV1NotFound") ELSE Ok(<<link[1]>>)

(* Mutant: the capability file is left out, as the older client does. *)
get_data_file_links_data_only(resp) ==
    IF get_document(resp) # "Ok" THEN JoinError
    ELSE Ok(SelectSeq(SelectHrefs(resp.doc.results),
                      LAMBDA link : \A k \in DOMAIN link : link[k] # "capability"))

(* CedaClient::get_data_file_links *)
get_data_file_links(resp) ==
    IF get_document(resp) # "Ok" THEN JoinError
    ELSE Ok(SelectHrefs(resp.doc.results))

(* The closures update.rs spawns: .map_err(|_| Error::GenericError)? turns *)
(* every client error into GenericError; a panic stays the task's          *)
(* JoinError.  The data-folder closure uses `?` alone and keeps the error. *)
MapErrGeneric(r) == IF r.kind = "Err" THEN Err("GenericError") ELSE r

----------------------------------------------------------------------------
(* The catalog the server holds.  Station s lies in county CountyOf(s),    *)
(* file k in the data folder of station FolderOf(k).                       *)

CountyOf(s) == ((s - 1) % NumCounties) + 1

FolderOf(k) == ((k - 1) % NumStations) + 1

Root == <<"https://data.ceda.ac.uk">>

BasePath == <<"/", "badc", "/", "dataset-version-202407", "/">>

CountyLink(c) == BasePath \o <<"county", Digit[c], "/">>

StationLink(s) == CountyLink(CountyOf(s)) \o <<"station", Digit[s], "/">>

FolderLink(s) == StationLink(s) \o <<QCV1, "/">>

Qc0Link(s) == StationLink(s) \o <<QCV0, "/">>

FileLink(k) ==
    <<"https://dap.ceda.ac.uk">> \o FolderLink(FolderOf(k))
        \o <<"obs", Digit[k], ".csv", "?download=1">>

ChangeLogLink == BasePath \o <<"change_log_station_files">>

(* Ascending sequence of the members of a set of numbers. *)
RECURSIVE SortedSeq(_)
SortedSeq(S) ==
    IF S = {} THEN <<>>
    ELSE LET m == CHOOSE x \in S : \A y \in S : x <= y
         IN  <<m>> \o SortedSeq(S \ {m})

RootDoc ==
    Doc([i \in 1 .. NumCounties |->
            Anchor(Some(CountyLink(i)), <<"county", Digit[i]>>)]
        \o <<Anchor(Some(ChangeLogLink), <<"change_log_station_files">>),
             Anchor(Some(<<"/", "help">>), <<"help">>),
             Anchor(None, <<"top">>)>>,
        <<>>)

CountyDoc(c) ==
    LET ss == SortedSeq({s \in Stations : CountyOf(s) = c})
    IN  Doc(<<>>,
            [i \in 1 .. Len(ss) |->
                Anchor(Some(StationLink(ss[i])), <<"station", Digit[ss[i]]>>)])

(* The station pages the server may hold for station s. *)
StationDocs(s) ==
    { Doc(<<Anchor(Some(Qc0Link(s)), <<QCV0>>),
            Anchor(Some(FolderLink(s)), <<QCV1>>),
            Anchor(Some(StationLink(s) \o <<"change_log">>), <<"change_log">>)>>,
          <<>>),
      Doc(<<Anchor(Some(Qc0Link(s)), <<QCV0>>),
            Anchor(Some(FolderLink(s)), <<"latest">>)>>,
          <<>>),
      Doc(<<Anchor(None, <<QCV1>>),
            Anchor(Some(FolderLink(s)), <<QCV1>>)>>,
          <<>>) }

FolderDoc(s) ==
    LET ks == SortedSeq({k \in Files : FolderOf(k) = s})
    IN  Doc([i \in 1 .. Len(ks) |->
                Anchor(Some(FileLink(ks[i])), <<"obs", Digit[ks[i]], ".csv">>)],
            <<>>)

(* A data folder no station page of the catalog links to: its listing     *)
(* holds the capability file next to the data files, may list a file      *)
(* twice, may hold an <a> without href, and may be empty.                 *)
SampleFolderLink == BasePath \o <<"sample", "/", QCV1, "/">>

CapabilityLink ==
    <<"https://dap.ceda.ac.uk">> \o SampleFolderLink
        \o <<"sample", "capability", ".csv", "?download=1">>

SampleFileLink(k) ==
    <<"https://dap.ceda.ac.uk">> \o SampleFolderLink
        \o <<"sample", Digit[k], ".csv", "?download=1">>

SampleFolderDocs ==
    { Doc(<<Anchor(Some(CapabilityLink), <<"capability">>),
            Anchor(Some(SampleFileLink(1)), <<"sample", "1">>),
            Anchor(Some(SampleFileLink(1)), <<"download">>)>>,
          <<>>),
      Doc(<<Anchor(None, <<"up">>),
            Anchor(Some(SampleFileLink(2)), <<"sample", "2">>)>>,
          <<>>),
      Doc(<<>>, <<>>) }

(* The documents a GET of `link` may bring. *)
Docs(link) ==
    IF link = BasePath THEN {RootDoc}
    ELSE IF \E c \in Counties : link = CountyLink(c)
    THEN {CountyDoc(CHOOSE c \in Counties : link = CountyLink(c))}
    ELSE IF \E s \in Stations : link = StationLink(s)
    THEN StationDocs(CHOOSE s \in Stations : link = StationLink(s))
    ELSE IF \E s \in Stations : link = FolderLink(s)
    THEN {FolderDoc(CHOOSE s \in Stations : link = FolderLink(s))}
    ELSE IF link = SampleFolderLink
    THEN SampleFolderDocs
    ELSE {}

Responses(link) == FailedResponses \cup {OkResponse(d) : d \in Docs(link)}

----------------------------------------------------------------------------
(* The raw data directory.  A remote body arrives in BodyChunks chunks; a  *)
(* file is the set of chunks it holds at their place.                      *)

Chunks == 1 .. BodyChunks

Absent == [exists |-> FALSE, chunks |-> {}]

FileOf(chunks) == [exists |-> TRUE, chunks |-> chunks]

Max(S) == CHOOSE x \in S : \A y \in S : y <= x

Min(S) == CHOOSE x \in S : \A y \in S : x <= y

(* url.split('/').last().unwrap() *)
LastSegment(url) ==
    LET slashes == {i \in DOMAIN url : url[i] = "/"}
    IN  IF slashes = {} THEN url ELSE SubSeq(url, Max(slashes) + 1, Len(url))

(* Mutant: rfind in place of find. *)
TruncateCsv_rfind(filename) ==
    LET found == {i \in DOMAIN filename : filename[i] = ".csv"}
    IN  IF found = {} THEN filename ELSE SubSeq(filename, 1, Max(found))

(* match filename.find(".csv") { Some(pos) => &filename[..pos + 4],        *)
(*                               None => filename }                        *)
TruncateCsv(filename) ==
    LET found == {i \in DOMAIN filename : filename[i] = ".csv"}
    IN  IF found = {} THEN filename ELSE SubSeq(filename, 1, Min(found))

FileName(url) == TruncateCsv(LastSegment(url))

FileNames == {FileName(FileLink(k)) : k \in Files}

(* requests, with one more GET of url *)
Sent(reqs, url) ==
    IF url \in DOMAIN reqs THEN [reqs EXCEPT ![url] = @ + 1]
    ELSE reqs @@ (url :> 1)

----------------------------------------------------------------------------
(* update(): the stages and their tasks.                                   *)

Stages == <<"counties", "stations", "folders", "files", "download">>

StageSet == {Stages[i] : i \in DOMAIN Stages}

(* The items a stage spawns one task for. *)
Input(stage) ==
    CASE stage = "counties" -> <<BasePath>>
      [] stage = "stations" -> countyLinks
      [] stage = "folders"  -> stationLinks
      [] stage = "files"    -> folderLinks
      [] stage = "download" -> fileLinks

NewTask(item, stage) ==
    [item    |-> item,
     pc      |-> IF stage = "download" THEN "send" ELSE "fetch",
     result  |-> Pending,
     written |-> 0]

Finished(t) == t.pc = "finished"

(* Units of work spawned and not yet completed. *)
InFlight(stage) == Cardinality({i \in DOMAIN tasks[stage] : ~Finished(tasks[stage][i])})

(* The body each stage's spawned closure runs on the response it gets. *)
Closure(stage, resp) ==
    CASE stage = "counties" -> MapErrGeneric(get_county_links(resp))
      [] stage = "stations" -> MapErrGeneric(get_station_links(resp))
      [] stage = "folders"  -> get_data_folder_link(resp)
      [] stage = "files"    -> MapErrGeneric(get_data_file_links(resp))

(* create_progress_bar(size): ProgressBar::new(size), position 0 *)
create_progress_bar(size) == [pos |-> 0, len |-> size]

(* Mutant: pb.inc(1) ahead of the `?`, so that a failed unit counts too. *)
pb_inc_always(stage, r) == [progress EXCEPT ![stage].pos = @ + 1]

(* `...await.map_err(..)?; pb.inc(1);` in a spawned closure: the `?` leaves *)
(* the closure before pb.inc(1) unless the call returned Ok.  pb.inc is an *)
(* atomic add on the bar's shared position.                                *)
pb_inc(stage, r) ==
    IF r.kind = "Ok" THEN [progress EXCEPT ![stage].pos = @ + 1] ELSE progress

(* tasks.push(tokio::spawn(..)) for the next item of the running stage *)
Spawn ==
    /\ ret = "none"
    /\ pc \in StageSet
    /\ Len(tasks[pc]) < Len(Input(pc))
    /\ tasks' = [tasks EXCEPT
                   ![pc] = Append(@, NewTask(Input(pc)[Len(@) + 1], pc))]
    /\ UNCHANGED <<pc, ret, countyLinks, stationLinks, folderLinks, fileLinks,
                   store, requests, progress, previous, selectVars, token, processVars>>

(* A spawned resolution task sends its one GET, gets resp for it and runs *)
(* to its end.                                                            *)
ResolveGets(stage, i, resp) ==
    /\ ret = "none"
    /\ pc = stage
    /\ i \in DOMAIN tasks[stage]
    /\ tasks[stage][i].pc = "fetch"
    /\ LET r == Closure(stage, resp)
       IN  /\ tasks' = [tasks EXCEPT ![stage][i].pc = "finished",
                                     ![stage][i].result = r]
           /\ progress' = IF stage = "counties" THEN progress
                          ELSE pb_inc(stage, r)
    /\ requests' = Sent(requests, Root \o tasks[stage][i].item)
    /\ UNCHANGED <<pc, ret, countyLinks, stationLinks, folderLinks, fileLinks,
                   store, previous, selectVars, token, processVars>>

Resolve(stage, i) ==
    /\ ret = "none"
    /\ pc = stage
    /\ i \in DOMAIN tasks[stage]
    /\ tasks[stage][i].pc = "fetch"
    /\ \E resp \in Responses(tasks[stage][i].item) : ResolveGets(stage, i, resp)

CountyTask == Resolve("counties", 1)

StationTask == \E i \in DOMAIN tasks["stations"] : Resolve("stations", i)

FolderTask == \E i \in DOMAIN tasks["folders"] : Resolve("folders", i)

FileTask == \E i \in DOMAIN tasks["files"] : Resolve("files", i)

----------------------------------------------------------------------------
(* CedaClient::download_csv, one await (or blocking call) at a time.       *)

Downloading(i, at) ==
    /\ ret = "none"
    /\ pc = "download"
    /\ i \in DOMAIN tasks["download"]
    /\ tasks["download"][i].pc = at

Finish(i, result) ==
    [tasks EXCEPT !["download"][i].pc = "finished",
                  !["download"][i].result = MapErrGeneric(result)]

Goto(i, at) == [tasks EXCEPT !["download"][i].pc = at]

(* download_csv returns `result`; the closure maps the error, leaves on it *)
(* with `?`, and calls pb.inc(1) otherwise.                                *)
Return(i, result) ==
    /\ tasks' = Finish(i, result)
    /\ progress' = pb_inc("download", MapErrGeneric(result))

(* Mutant: a request that came back is taken for a success, whatever its *)
(* status.                                                                *)
SendRequestGets_unchecked(i, status) ==
    /\ Downloading(i, "send")
    /\ requests' = Sent(requests, tasks["download"][i].item)
    /\ IF status # "send_error"
       THEN tasks' = Goto(i, "exists") /\ UNCHANGED progress
       ELSE Return(i, Err("GenericError"))
    /\ UNCHANGED <<pc, ret, countyLinks, stationLinks, folderLinks, fileLinks,
                   store, previous, selectVars, token, processVars>>

(* self.client.get(url).send().await, then the status check *)
SendRequestGets(i, status) ==
    /\ Downloading(i, "send")
    /\ requests' = Sent(requests, tasks["download"][i].item)
    /\ IF status = "200"
       THEN tasks' = Goto(i, "exists") /\ UNCHANGED progress
       ELSE Return(i, Err("GenericError"))
    /\ UNCHANGED <<pc, ret, countyLinks, stationLinks, folderLinks, fileLinks,
                   store, previous, selectVars, token, processVars>>

SendRequest(i) ==
    \E status \in {"send_error", "non_2xx", "200"} : SendRequestGets(i, status)

(* Mutant: no existence test; the file is always created. *)
SkipIfExists_never(i) ==
    /\ Downloading(i, "exists")
    /\ tasks' = Goto(i, "create")
    /\ UNCHANGED <<pc, ret, countyLinks, stationLinks, folderLinks, fileLinks,
                   store, requests, progress, previous, selectVars, token, processVars>>

(* Mutant: the existence test is inverted. *)
SkipIfExists_inverted(i) ==
    /\ Downloading(i, "exists")
    /\ IF ~store[FileName(tasks["download"][i].item)].exists
       THEN Return(i, Ok(<<>>))
       ELSE tasks' = Goto(i, "create") /\ UNCHANGED progress
    /\ UNCHANGED <<pc, ret, countyLinks, stationLinks, folderLinks, fileLinks,
                   store, requests, previous, selectVars, token, processVars>>

(* if dir.join(filename).exists() { return Ok(()); } *)
SkipIfExists(i) ==
    /\ Downloading(i, "exists")
    /\ IF store[FileName(tasks["download"][i].item)].exists
       THEN Return(i, Ok(<<>>))
       ELSE tasks' = Goto(i, "create") /\ UNCHANGED progress
    /\ UNCHANGED <<pc, ret, countyLinks, stationLinks, folderLinks, fileLinks,
                   store, requests, previous, selectVars, token, processVars>>

(* File::create(&file_path).await: creates the file, or truncates it *)
CreateFile(i) ==
    /\ Downloading(i, "create")
    /\ \/ /\ store' = [store EXCEPT
                         ![FileName(tasks["download"][i].item)] = FileOf({})]
          /\ tasks' = Goto(i, "copy")
          /\ UNCHANGED progress
       \/ /\ Return(i, Err("GenericError"))
          /\ UNCHANGED store
    /\ UNCHANGED <<pc, ret, countyLinks, stationLinks, folderLinks, fileLinks,
                   requests, previous, selectVars, token, processVars>>

(* copy(&mut stream_reader, &mut file).await: the next chunk of the body   *)
(* is written at this handle's offset, the stream ends, or it fails.       *)
CopyChunk(i) ==
    LET t    == tasks["download"][i]
        name == FileName(t.item)
    IN  /\ Downloading(i, "copy")
        /\ \/ /\ t.written < BodyChunks
              /\ store' = [store EXCEPT ![name] =
                             FileOf(store[name].chunks \cup {t.written + 1})]
              /\ tasks' = [tasks EXCEPT !["download"][i].written = @ + 1]
              /\ UNCHANGED progress
           \/ /\ t.written = BodyChunks
              /\ Return(i, Ok(<<>>))
              /\ UNCHANGED store
           \/ /\ Return(i, Err("GenericError"))
              /\ UNCHANGED store
        /\ UNCHANGED <<pc, ret, countyLinks, stationLinks, folderLinks,
                       fileLinks, requests, previous, selectVars, token, processVars>>

DownloadTask ==
    \E i \in DOMAIN tasks["download"] :
        SendRequest(i) \/ SkipIfExists(i) \/ CreateFile(i) \/ CopyChunk(i)

----------------------------------------------------------------------------
(* join_all(tasks).await and what each stage makes of the results.         *)

(* Mutant: join_all waits for one handle more than the stage spawned. *)
Joined_stuck(stage) ==
    /\ Len(tasks[stage]) > Len(Input(stage))
    /\ \A i \in DOMAIN tasks[stage] : Finished(tasks[stage][i])

(* Mutant: the stage goes on as soon as one handle has resolved. *)
Joined_first(stage) ==
    /\ Len(tasks[stage]) = Len(Input(stage))
    /\ \/ tasks[stage] = <<>>
       \/ \E i \in DOMAIN tasks[stage] : Finished(tasks[stage][i])

(* join_all resolves once every spawned handle has resolved. *)
Joined(stage) ==
    /\ Len(tasks[stage]) = Len(Input(stage))
    /\ \A i \in DOMAIN tasks[stage] : Finished(tasks[stage][i])

(* The Ok payloads of the results, concatenated in spawn order. *)
RECURSIVE Flatten(_)
Flatten(ts) ==
    IF ts = <<>> THEN <<>>
    ELSE (IF Head(ts).result.kind = "Ok" THEN Head(ts).result.links ELSE <<>>)
         \o Flatten(Tail(ts))

(* get_county_links: county_links_task.await.map_err(..)?? *)
CollectCounties(ts) ==
    IF ts[1].result.kind = "Ok" THEN Ok(ts[1].result.links)
    ELSE Err("GenericError")

(* get_station_links: Ok(Ok(links)) => extend, _ => return Err(GenericError) *)
CollectStations(ts) ==
    IF \A i \in DOMAIN ts : ts[i].result.kind = "Ok" THEN Ok(Flatten(ts))
    ELSE Err("GenericError")

(* Mutant: one failed station fails the stage, as in get_station_links. *)
CollectFolders_abort(ts) ==
    IF \A i \in DOMAIN ts : ts[i].result.kind = "Ok" THEN Ok(Flatten(ts))
    ELSE Err("GenericError")

(* get_data_folder_links: results.filter_map(Result::ok).filter_map(Result::ok) *)
CollectFolders(ts) == Ok(Flatten(ts))

(* get_data_file_links: the same filter, extend instead of push *)
CollectFiles(ts) == Ok(Flatten(ts))

(* Mutant: the stage returns the first unit's error, as `?` on each result *)
(* would.                                                                  *)
CollectDownload_abort(ts) ==
    IF \E i \in DOMAIN ts : ts[i].result.kind = "Panic" THEN JoinError
    ELSE IF \E i \in DOMAIN ts : ts[i].result.kind = "Err"
         THEN Err("GenericError")
         ELSE Ok(<<>>)

(* download_data: collect::<Result<Vec<_>, _>>().unwrap() panics on a      *)
(* JoinError and looks at no task's own Result.                            *)
CollectDownload(ts) ==
    IF \E i \in DOMAIN ts : ts[i].result.kind = "Panic" THEN JoinError
    ELSE Ok(<<>>)

Collect(stage, ts) ==
    CASE stage = "counties" -> CollectCounties(ts)
      [] stage = "stations" -> CollectStations(ts)
      [] stage = "folders"  -> CollectFolders(ts)
      [] stage = "files"    -> CollectFiles(ts)
      [] stage = "download" -> CollectDownload(ts)

(* The place of a stage in update(); 0 for the client's construction. *)
StageIdx(stage) ==
    IF stage = "new" THEN 0 ELSE CHOOSE i \in DOMAIN Stages : Stages[i] = stage

LastStage == Stages[Len(Stages)]

(* Mutant: update() goes on to the next stage whatever the stage returned. *)
Join_ignoring(stage) ==
    /\ ret = "none"
    /\ pc = stage
    /\ Joined(stage)
    /\ LET r == Collect(stage, tasks[stage])
       IN  /\ pc' = IF stage # LastStage
                    THEN Stages[StageIdx(stage) + 1] ELSE stage
           /\ ret' = IF stage = LastStage THEN "Ok" ELSE "none"
           /\ countyLinks' = IF stage = "counties" THEN r.links ELSE countyLinks
           /\ stationLinks' = IF stage = "stations" THEN r.links ELSE stationLinks
           /\ folderLinks' = IF stage = "folders" THEN r.links ELSE folderLinks
           /\ fileLinks' = IF stage = "files" THEN r.links ELSE fileLinks
           /\ progress' = IF stage # LastStage
                          THEN [progress EXCEPT ![Stages[StageIdx(stage) + 1]] =
                                  create_progress_bar(Len(r.links))]
                          ELSE progress
    /\ UNCHANGED <<tasks, store, requests, previous, selectVars, token, processVars>>

(* A stage returns; update() applies `?` to what it returned. *)
Join(stage) ==
    /\ ret = "none"
    /\ pc = stage
    /\ Joined(stage)
    /\ LET r == Collect(stage, tasks[stage])
       IN  /\ pc' = IF r.kind = "Ok" /\ stage # LastStage
                    THEN Stages[StageIdx(stage) + 1] ELSE stage
           /\ ret' = IF r.kind # "Ok" THEN r.kind
                     ELSE IF stage = LastStage THEN "Ok" ELSE "none"
           /\ countyLinks' = IF stage = "counties" THEN r.links ELSE countyLinks
           /\ stationLinks' = IF stage = "stations" THEN r.links ELSE stationLinks
           /\ folderLinks' = IF stage = "folders" THEN r.links ELSE folderLinks
           /\ fileLinks' = IF stage = "files" THEN r.links ELSE fileLinks
           /\ progress' = IF r.kind = "Ok" /\ stage # LastStage
                          THEN [progress EXCEPT ![Stages[StageIdx(stage) + 1]] =
                                  create_progress_bar(Len(r.links))]
                          ELSE progress
    /\ UNCHANGED <<tasks, store, requests, previous, selectVars, token, processVars>>

JoinCounties == Join("counties")

JoinStations == Join("stations")

JoinFolders == Join("folders")

JoinFiles == Join("files")

JoinDownload == Join("download")

----------------------------------------------------------------------------
(* One run of update() on an empty data directory.                         *)

NoTasks == [stage \in StageSet |-> <<>>]

EmptyStore == [name \in FileNames |-> Absent]

NoResponse == [status |-> "none", doc |-> Doc(<<>>, <<>>)]

NoProgress == [stage \in StageSet |-> create_progress_bar(0)]

NoPrevious == [ran |-> FALSE, tasks |-> NoTasks, store |-> EmptyStore]

(* The environment holds no token, one that is no legal header value, or a *)
(* usable one.                                                             *)
Tokens == {"absent", "invalid", "valid"}

(* Mutant: the token is looked up lazily; the client is built without it. *)
NewClient_lazy ==
    /\ ret = "none"
    /\ pc = "new"
    /\ pc' = "counties"
    /\ UNCHANGED <<token, ret, countyLinks, stationLinks, folderLinks,
                   fileLinks, tasks, store, requests, progress, previous,
                   selectVars, processVars>>

(* CedaClient::new("202407").map_err(|_| Error::GenericError)?  The        *)
(* expect() of get_access_token panics when the variable is not set;       *)
(* HeaderValue::from_str rejects a token that is no legal header value.    *)
NewClient ==
    /\ ret = "none"
    /\ pc = "new"
    /\ pc' = IF token = "valid" THEN "counties" ELSE pc
    /\ ret' = CASE token = "valid"   -> "none"
                [] token = "invalid" -> "Err"
                [] token = "absent"  -> "Panic"
    /\ UNCHANGED <<token, countyLinks, stationLinks, folderLinks, fileLinks,
                   tasks, store, requests, progress, previous, selectVars,
                   processVars>>

(* process has not been run. *)
NoDatabase == [tables |-> FALSE, stations |-> <<>>, observations |-> <<>>]

NotProcessing ==
    [pc |-> "idle", init |-> FALSE, run |-> 0, data_files |-> <<>>, next |-> 0,
     record |-> <<>>, row |-> 0, ret |-> "none", earlier |-> <<>>]

Init ==
    /\ token \in Tokens
    /\ pc = "new"
    /\ ret = "none"
    /\ countyLinks = <<>>
    /\ stationLinks = <<>>
    /\ folderLinks = <<>>
    /\ fileLinks = <<>>
    /\ tasks = NoTasks
    /\ store = EmptyStore
    /\ requests = <<>>
    /\ progress = NoProgress
    /\ previous = NoPrevious
    /\ dataFiles = <<>>
    /\ db = NoDatabase
    /\ proc = NotProcessing
    /\ response = NoResponse
    /\ selected = Pending

Next ==
    \/ NewClient
    \/ Spawn
    \/ CountyTask
    \/ StationTask
    \/ FolderTask
    \/ FileTask
    \/ DownloadTask
    \/ JoinCounties
    \/ JoinStations
    \/ JoinFolders
    \/ JoinFiles
    \/ JoinDownload

Spec == Init /\ [][Next]_vars

(* Every issued request completes in the end and every spawned task and    *)
(* the caller get to run: a step that can be taken is taken in the end.    *)
Fairness == WF_vars(Next)

SpecFair == Init /\ [][Next]_vars /\ Fairness

----------------------------------------------------------------------------
(* A second run of update() on the data directory the first one left,      *)
(* after a first run in which every spawned task returned Ok.              *)

EveryFetchSucceeded ==
    \A stage \in StageSet :
        \A i \in DOMAIN tasks[stage] : tasks[stage][i].result.kind = "Ok"

(* update() is called again: a new client, new vectors and bars; only the  *)
(* data directory is what the run before made of it.                       *)
RunAgain ==
    /\ ret = "Ok"
    /\ ~previous.ran
    /\ EveryFetchSucceeded
    /\ previous' = [ran |-> TRUE, tasks |-> tasks, store |-> store]
    /\ pc' = "new"
    /\ ret' = "none"
    /\ countyLinks' = <<>>
    /\ stationLinks' = <<>>
    /\ folderLinks' = <<>>
    /\ fileLinks' = <<>>
    /\ tasks' = NoTasks
    /\ requests' = <<>>
    /\ progress' = NoProgress
    /\ UNCHANGED <<store, selectVars, token, processVars>>

NextRerun ==
    \/ Next
    \/ RunAgain

SpecRerun == Init /\ [][NextRerun]_vars

----------------------------------------------------------------------------
(* get_data_folder_link on its own: one GET of a station page, over every  *)
(* response with at most MaxAnchors "#results a" elements.                 *)

SelectAnchors ==
    { Anchor(h, t) :
        h \in {None, Some(<<"/", QCV0, "/">>), Some(<<"/", QCV1, "/">>)},
        t \in {<<QCV0>>, <<QCV1>>, <<"change_log">>, <<"see", QCV1>>} }

SelectPages ==
    UNION { [1 .. n -> SelectAnchors] : n \in 0 .. MaxAnchors }

InitSelect ==
    /\ token = "valid"
    /\ pc = "folders"
    /\ ret = "none"
    /\ countyLinks = <<>>
    /\ stationLinks = <<>>
    /\ folderLinks = <<>>
    /\ fileLinks = <<>>
    /\ tasks = NoTasks
    /\ store = EmptyStore
    /\ requests = <<>>
    /\ progress = NoProgress
    /\ previous = NoPrevious
    /\ dataFiles = <<>>
    /\ db = NoDatabase
    /\ proc = NotProcessing
    /\ response \in FailedResponses
                      \cup {OkResponse(Doc(p, <<>>)) : p \in SelectPages}
    /\ selected = Pending

ResolveFolder ==
    /\ selected = Pending
    /\ selected' = get_data_folder_link(response)
    /\ UNCHANGED <<pipelineVars, processVars, response>>

NextSelect == ResolveFolder

SpecSelect == InitSelect /\ [][NextSelect]_vars

----------------------------------------------------------------------------
(* The link-listing client calls on their own: get_county_links,           *)
(* get_station_links or get_data_file_links (the one `pc` names) on one    *)
(* response, over every page with at most MaxAnchors elements under one of *)
(* the two selectors.  An href may be absent, and it may be "".            *)

ExtractHrefs ==
    {None,
     Some(<<>>),
     Some(CountyLink(1)),
     Some(CountyLink(2)),
     Some(ChangeLogLink),
     Some(ChangeLogLink \o <<"/">>),
     Some(<<"/", "help">>),
     Some(<<"/", "mirror">> \o BasePath)}

ExtractAnchors == {Anchor(h, <<"a">>) : h \in ExtractHrefs}

ExtractPages == UNION { [1 .. n -> ExtractAnchors] : n \in 0 .. MaxAnchors }

(* What the other selector matches on an enumerated page. *)
OtherAnchors == <<Anchor(Some(BasePath \o <<"other", "/">>), <<"other">>)>>

InitExtract ==
    /\ token = "valid"
    /\ pc \in {"counties", "stations", "files"}
    /\ ret = "none"
    /\ countyLinks = <<>>
    /\ stationLinks = <<>>
    /\ folderLinks = <<>>
    /\ fileLinks = <<>>
    /\ tasks = NoTasks
    /\ store = EmptyStore
    /\ requests = <<>>
    /\ progress = NoProgress
    /\ previous = NoPrevious
    /\ dataFiles = <<>>
    /\ db = NoDatabase
    /\ proc = NotProcessing
    /\ response \in FailedResponses
                      \cup {OkResponse(Doc(p, OtherAnchors)) : p \in ExtractPages}
                      \cup {OkResponse(Doc(OtherAnchors, p)) : p \in ExtractPages}
    /\ selected = Pending

ExtractLinks ==
    /\ selected = Pending
    /\ selected' = CASE pc = "counties" -> get_county_links(response)
                      [] pc = "stations" -> get_station_links(response)
                      [] pc = "files"    -> get_data_file_links(response)
    /\ UNCHANGED <<pipelineVars, processVars, response>>

NextExtract == ExtractLinks

SpecExtract == InitExtract /\ [][NextExtract]_vars

----------------------------------------------------------------------------
(* One request and its answer: the one task of a stage (`pc` says which)   *)
(* sends its GET, and what comes back for it is `response`.  The data      *)
(* directory is empty or holds every file.                                 *)

FullStore == [name \in FileNames |-> FileOf(Chunks)]

(* What a download request may come back with; a body that fails later     *)
(* fails in copy.                                                          *)
DownloadAnswers ==
    {r \in FailedResponses : r.status # "body_error"}
        \cup {OkResponse(Doc(<<>>, <<>>))}

InitFetch ==
    /\ token = "valid"
    /\ pc \in StageSet
    /\ ret = "none"
    /\ countyLinks \in IF pc = "stations"
                       THEN {<<CountyLink(c)>> : c \in Counties} ELSE {<<>>}
    /\ stationLinks \in IF pc = "folders"
                        THEN {<<StationLink(s)>> : s \in Stations} ELSE {<<>>}
    /\ folderLinks \in IF pc = "files"
                       THEN {<<FolderLink(s)>> : s \in Stations} ELSE {<<>>}
    /\ fileLinks \in IF pc = "download"
                     THEN {<<FileLink(k)>> : k \in Files} ELSE {<<>>}
    /\ tasks = NoTasks
    /\ store \in {EmptyStore, FullStore}
    /\ requests = <<>>
    /\ progress = [NoProgress EXCEPT ![pc] = create_progress_bar(1)]
    /\ previous = NoPrevious
    /\ dataFiles = <<>>
    /\ db = NoDatabase
    /\ proc = NotProcessing
    /\ response \in IF pc = "download" THEN DownloadAnswers
                    ELSE Responses(Input(pc)[1])
    /\ selected = Pending

FetchAnswered == pc # "download" /\ ResolveGets(pc, 1, response)

DownloadAnswered == SendRequestGets(1, response.status)

DownloadGoesOn == SkipIfExists(1) \/ CreateFile(1) \/ CopyChunk(1)

NextFetch ==
    \/ Spawn
    \/ FetchAnswered
    \/ DownloadAnswered
    \/ DownloadGoesOn

SpecFetch == InitFetch /\ [][NextFetch]_vars

----------------------------------------------------------------------------
(* download_data on its own: any list of at most MaxLinks file links,      *)
(* repeated links included, over a data directory that holds any of the    *)
(* files already.                                                          *)

(* A second link to file k: another path, the same last segment up to ".csv" *)
MirrorLink(k) ==
    <<"https://dap.ceda.ac.uk", "/", "mirror", "/", "obs", Digit[k], ".csv">>

DownloadLinks == {FileLink(1), FileLink(2), MirrorLink(1)}

LinkLists == UNION { [1 .. n -> DownloadLinks] : n \in 1 .. MaxLinks }

InitDownload ==
    /\ token = "valid"
    /\ pc = "download"
    /\ ret = "none"
    /\ countyLinks = <<>>
    /\ stationLinks = <<>>
    /\ folderLinks = <<>>
    /\ fileLinks \in LinkLists
    /\ tasks = NoTasks
    /\ store \in [FileNames -> {Absent, FileOf(Chunks)}]
    /\ requests = <<>>
    /\ progress = [NoProgress EXCEPT
                     !["download"] = create_progress_bar(Len(fileLinks))]
    /\ previous = NoPrevious
    /\ dataFiles = <<>>
    /\ db = NoDatabase
    /\ proc = NotProcessing
    /\ response = NoResponse
    /\ selected = Pending

NextDownload ==
    \/ Spawn
    \/ DownloadTask
    \/ JoinDownload

SpecDownload == InitDownload /\ [][NextDownload]_vars

----------------------------------------------------------------------------
(* The download stage of one run on an empty data directory, then that of  *)
(* a later run over the same file links, whatever the first one left.      *)

InitRepair == InitDownload /\ store = EmptyStore

DownloadAgain ==
    /\ pc = "download"
    /\ ret # "none"
    /\ ~previous.ran
    /\ previous' = [ran |-> TRUE, tasks |-> tasks, store |-> store]
    /\ ret' = "none"
    /\ tasks' = NoTasks
    /\ requests' = <<>>
    /\ progress' = [NoProgress EXCEPT
                      !["download"] = create_progress_bar(Len(fileLinks))]
    /\ UNCHANGED <<pc, countyLinks, stationLinks, folderLinks, fileLinks,
                   store, selectVars, token, processVars>>

NextRepair ==
    \/ NextDownload
    \/ DownloadAgain

SpecRepair == InitRepair /\ [][NextRepair]_vars

----------------------------------------------------------------------------
(* get_data_file_links (update.rs) on its own, up to the point where       *)
(* download_data has spawned its units: any list of at most MaxLinks data  *)
(* folder links, repeated ones included.                                   *)

FolderLists ==
    UNION { [1 .. n -> {FolderLink(1), SampleFolderLink}] : n \in 1 .. MaxLinks }

InitFiles ==
    /\ token = "valid"
    /\ pc = "files"
    /\ ret = "none"
    /\ countyLinks = <<>>
    /\ stationLinks = <<>>
    /\ folderLinks \in FolderLists
    /\ fileLinks = <<>>
    /\ tasks = NoTasks
    /\ store = EmptyStore
    /\ requests = <<>>
    /\ progress = [NoProgress EXCEPT
                     !["files"] = create_progress_bar(Len(folderLinks))]
    /\ previous = NoPrevious
    /\ dataFiles = <<>>
    /\ db = NoDatabase
    /\ proc = NotProcessing
    /\ response = NoResponse
    /\ selected = Pending

NextFiles ==
    \/ Spawn
    \/ FileTask
    \/ JoinFiles

SpecFiles == InitFiles /\ [][NextFiles]_vars

----------------------------------------------------------------------------
(* The last two stages on one data folder whose listing holds the          *)
(* capability file next to the data files, from an empty data directory.   *)

SampleNames ==
    {FileName(l) : l \in {CapabilityLink, SampleFileLink(1), SampleFileLink(2)}}

InitSample ==
    /\ token = "valid"
    /\ pc = "files"
    /\ ret = "none"
    /\ countyLinks = <<>>
    /\ stationLinks = <<>>
    /\ folderLinks = <<SampleFolderLink>>
    /\ fileLinks = <<>>
    /\ tasks = NoTasks
    /\ store = [name \in SampleNames |-> Absent]
    /\ requests = <<>>
    /\ progress = [NoProgress EXCEPT
                     !["files"] = create_progress_bar(Len(folderLinks))]
    /\ previous = NoPrevious
    /\ dataFiles = <<>>
    /\ db = NoDatabase
    /\ proc = NotProcessing
    /\ response = NoResponse
    /\ selected = Pending

NextSample ==
    \/ Spawn
    \/ FileTask
    \/ JoinFiles
    \/ DownloadTask
    \/ JoinDownload

SpecSample == InitSample /\ [][NextSample]_vars

----------------------------------------------------------------------------
(* download_csv of one file URL, over every URL of at most MaxUrlLen       *)
(* tokens that names a file (its last segment is not empty), with the      *)
(* directory empty, full, or holding or lacking the one file obs.csv.      *)

MaxUrlLen == 4

UrlTokens == {"/", "obs", ".csv", "?download=1"}

FileUrls ==
    {u \in UNION { [1 .. n -> UrlTokens] : n \in 1 .. MaxUrlLen } :
        u[Len(u)] # "/"}

UrlNames == {FileName(u) : u \in FileUrls}

Directories ==
    LET holding(S) ==
            [name \in UrlNames |-> IF name \in S THEN FileOf(Chunks) ELSE Absent]
    IN  {holding({}), holding(UrlNames),
         holding({<<"obs", ".csv">>}), holding(UrlNames \ {<<"obs", ".csv">>})}

InitFileName ==
    /\ token = "valid"
    /\ pc = "download"
    /\ ret = "none"
    /\ countyLinks = <<>>
    /\ stationLinks = <<>>
    /\ folderLinks = <<>>
    /\ fileLinks \in {<<u>> : u \in FileUrls}
    /\ tasks = NoTasks
    /\ store \in Directories
    /\ requests = <<>>
    /\ progress = [NoProgress EXCEPT
                     !["download"] = create_progress_bar(Len(fileLinks))]
    /\ previous = NoPrevious
    /\ dataFiles = <<>>
    /\ db = NoDatabase
    /\ proc = NotProcessing
    /\ response = NoResponse
    /\ selected = Pending

NextFileName ==
    \/ Spawn
    \/ DownloadTask
    \/ JoinDownload

SpecFileName == InitFileName /\ [][NextFileName]_vars

----------------------------------------------------------------------------
(* The older client (src/ceda.rs): parse_data_links on the links of a      *)
(* station page with at most MaxAnchors anchors, then the one GET of the   *)
(* folder it chose.  link.contains(marker) is the marker being a token.    *)

Contains(link, marker) == \E k \in DOMAIN link : link[k] = marker

(* Mutant: the first link that has either marker, in page order. *)
data_link_in_order(links) ==
    LET either == SelectSeq(links, LAMBDA l : Contains(l, QCV1)
                                                \/ Contains(l, QCV0))
    IN  IF either # <<>> THEN either[1] ELSE <<>>

(* let mut data_link = String::new(); if let Some(link) = .. else if let .. *)
data_link(links) ==
    LET v1 == SelectSeq(links, LAMBDA l : Contains(l, QCV1))
        v0 == SelectSeq(links, LAMBDA l : Contains(l, QCV0))
    IN  IF v1 # <<>> THEN v1[1]
        ELSE IF v0 # <<>> THEN v0[1]
        ELSE <<>>

(* parse_datafile_links: get_document(&url).await.unwrap(), then the hrefs *)
parse_datafile_links(resp) ==
    IF get_document(resp) # "Ok"
    THEN [kind |-> "Panic", err |-> "unwrap", links |-> <<>>]
    ELSE Ok(SelectHrefs(resp.doc.results))

OldHrefs ==
    {None, Some(<<>>), Some(<<"/", "sample", "capability", ".csv">>),
     Some(<<"/", QCV0, "/">>), Some(<<"/", QCV1, "/">>),
     Some(<<"/", QCV0, "/", QCV1, "/">>)}

OldPages ==
    UNION {[1 .. n -> {Anchor(h, <<>>) : h \in OldHrefs}] : n \in 0 .. MaxAnchors}

OldFolderAnswers ==
    FailedResponses
        \cup {OkResponse(Doc(<<Anchor(Some(SampleFileLink(1)), <<>>)>>, <<>>))}

InitOld ==
    /\ token = "valid"
    /\ pc = "folders"
    /\ ret = "none"
    /\ countyLinks = <<>>
    /\ stationLinks = <<>>
    /\ folderLinks = <<>>
    /\ fileLinks = <<>>
    /\ tasks = NoTasks
    /\ store = EmptyStore
    /\ requests = <<>>
    /\ progress = NoProgress
    /\ previous = NoPrevious
    /\ dataFiles = <<>>
    /\ db = NoDatabase
    /\ proc = NotProcessing
    /\ response \in {OkResponse(Doc(p, <<>>)) : p \in OldPages}
    /\ selected = Pending

(* parse_data_links(&links) *)
ParseDataLinks ==
    /\ selected = Pending
    /\ LET link == data_link(SelectHrefs(response.doc.results))
       IN  IF link = <<>>
           THEN /\ selected' = Err("No URL matches qc-version-1 or qc-version-0")
                /\ requests' = requests
           ELSE \E resp \in OldFolderAnswers :
                    /\ selected' = parse_datafile_links(resp)
                    /\ requests' = Sent(requests, Root \o link)
    /\ UNCHANGED <<token, pc, ret, countyLinks, stationLinks, folderLinks,
                   fileLinks, tasks, store, progress, previous, processVars,
                   response>>

NextOld == ParseDataLinks

SpecOld == InitOld /\ [][NextOld]_vars

----------------------------------------------------------------------------
(* CedaCsvReader (src/ceda_csv_reader.rs).  A data file is its lines, each *)
(* line the fields split(',') gives (always at least one), or a file that  *)
(* cannot be opened or read.  Rust indexes from 0: lines[n] is the line    *)
(* at position n + 1.                                                      *)

Parsed(v) == [kind |-> "Ok", err |-> "", value |-> v]

Failed(e) == [kind |-> "Err", err |-> e, value |-> <<>>]

Panicked == [kind |-> "Panic", err |-> "panic", value |-> <<>>]

(* str::parse::<u32>: the number a field spells, if it spells one *)
U32 ==
    ("1" :> 1) @@ ("2" :> 2) @@ ("3" :> 3) @@ ("4" :> 4) @@ ("5" :> 5)
        @@ ("6" :> 6) @@ ("7" :> 7) @@ ("8" :> 8) @@ ("9" :> 9)
        @@ ("64" :> 64) @@ ("00144" :> 144) @@ ("144" :> 144)
        @@ ("01448" :> 1448) @@ ("1994" :> 1994) @@ ("1997" :> 1997)

(* str::parse::<f32>: the fields that spell a float, and the float *)
F32 ==
    ("54.865" :> "54.865") @@ ("-6.458" :> "-6.458") @@ ("4" :> "4.0")
        @@ ("170" :> "170.0")

(* NaiveDateTime::parse_from_str(.., "%Y-%m-%d %H:%M:%S") *)
DateTimes ==
    {"1994-01-01 00:00:00", "1994-12-31 23:59:59",
     "1994-10-01 00:00:00", "1994-10-01 01:00:00", "1994-10-01 02:00:00",
     "1994-10-01 03:00:00"}

(* .parse().ok() *)
ParseU32(field) == IF field \in DOMAIN U32 THEN Some(U32[field]) ELSE None

ParseF32(field) == IF field \in DOMAIN F32 THEN Some(F32[field]) ELSE None

(* A metadata line whose value is parts[2], kept as it is. *)
parse_text(lines, n, label, labelError) ==
    IF Len(lines) <= n THEN Panicked
    ELSE LET parts == lines[n + 1]
         IN  IF parts[1] # label THEN Failed(labelError)
             ELSE IF Len(parts) < 3 THEN Panicked
             ELSE Parsed(parts[3])

(* A metadata line whose value is parts[2].parse::<u32>(). *)
parse_number(lines, n, label, labelError, parseError) ==
    IF Len(lines) <= n THEN Panicked
    ELSE LET parts == lines[n + 1]
         IN  IF parts[1] # label THEN Failed(labelError)
             ELSE IF Len(parts) < 3 THEN Panicked
             ELSE IF ParseU32(parts[3]) = None THEN Failed(parseError)
             ELSE Parsed(ParseU32(parts[3])[1])

parse_observation_station(lines) ==
    parse_text(lines, 10, "observation_station",
               "CsvObservationStationParsingError")

parse_historic_county_name(lines) ==
    parse_text(lines, 11, "historic_county_name",
               "CsvHistoricCountyNameParsingError")

(* A wrong label on this line is reported as CsvHeightParsingError. *)
parse_midas_station_id(lines) ==
    parse_number(lines, 13, "midas_station_id",
                 "CsvHeightParsingError", "CsvMidasStationIdParsingError")

parse_location(lines) ==
    IF Len(lines) <= 14 THEN Panicked
    ELSE LET parts == lines[15]
         IN  IF parts[1] # "location" THEN Failed("CsvLocationMissingError")
             ELSE IF Len(parts) < 3 THEN Panicked
             ELSE IF ParseF32(parts[3]) = None
                  THEN Failed("CsvLocationParsingError")
             ELSE IF Len(parts) < 4 THEN Panicked
             ELSE IF ParseF32(parts[4]) = None
                  THEN Failed("CsvLocationParsingError")
             ELSE Parsed([lat |-> ParseF32(parts[3])[1],
                          lon |-> ParseF32(parts[4])[1]])

parse_height(lines) ==
    parse_number(lines, 15, "height",
                 "CsvHeightParsingError", "CsvHeightParsingError")

parse_date_valid(lines) ==
    IF Len(lines) <= 16 THEN Panicked
    ELSE LET parts == lines[17]
         IN  IF parts[1] # "date_valid" THEN Failed("CsvDateValidMissingError")
             ELSE IF Len(parts) < 3 THEN Panicked
             ELSE IF parts[3] \notin DateTimes THEN Failed("CsvDateParseError")
             ELSE IF Len(parts) < 4 THEN Panicked
             ELSE IF parts[4] \notin DateTimes THEN Failed("CsvDateParseError")
             ELSE Parsed([from |-> parts[3], to |-> parts[4]])

(* Mutant: the copy stops at the first "end data" line. *)
vec_to_csv_until_end(lines) ==
    LET headerRows == {k \in DOMAIN lines : lines[k][1] = "ob_time"}
        h == Min(headerRows)
        ends == {k \in (h + 1)..Len(lines) : lines[k][1] = "end data"}
        written ==
            IF headerRows = {} THEN <<>>
            ELSE SubSeq(lines, h,
                        IF ends = {} THEN Len(lines) ELSE Min(ends) - 1)
    IN  IF \E k \in DOMAIN written : Len(written[k]) # Len(written[1])
        THEN Panicked
        ELSE Parsed(written)

(* vec_to_csv: the header row (the first line whose first field is         *)
(* "ob_time") and every later line whose first field is not "end data".    *)
(* csv::Writer is not flexible: write_record fails on a record whose       *)
(* length differs from the first one written, and the unwrap() panics.     *)
vec_to_csv(lines) ==
    LET headerRows == {k \in DOMAIN lines : lines[k][1] = "ob_time"}
        written ==
            IF headerRows = {} THEN <<>>
            ELSE LET h == Min(headerRows)
                 IN  <<lines[h]>>
                         \o SelectSeq(SubSeq(lines, h + 1, Len(lines)),
                                      LAMBDA line : line[1] # "end data")
    IN  IF \E k \in DOMAIN written : Len(written[k]) # Len(written[1])
        THEN Panicked
        ELSE Parsed(written)

Columns ==
    <<"ob_time", "id", "wind_speed", "wind_direction", "wind_speed_unit_id",
      "src_opr_type">>

ColumnNotFound ==
    [column \in {Columns[k] : k \in DOMAIN Columns} |->
        CASE column = "ob_time" -> "ColumnNotFound(ob_time)"
          [] column = "id" -> "ColumnNotFound(id)"
          [] column = "wind_speed" -> "ColumnNotFound(wind_speed)"
          [] column = "wind_direction" -> "ColumnNotFound(wind_direction)"
          [] column = "wind_speed_unit_id"
                -> "ColumnNotFound(wind_speed_unit_id)"
          [] column = "src_opr_type" -> "ColumnNotFound(src_opr_type)"]

(* headers.iter().position(|h| h == column_name); 0 when there is none *)
get_column_index(headers, column_name) ==
    IF \E k \in DOMAIN headers : headers[k] = column_name
    THEN Min({k \in DOMAIN headers : headers[k] = column_name})
    ELSE 0

parse_wind(headers, record) ==
    [speed |-> ParseF32(record[get_column_index(headers, "wind_speed")]),
     direction |->
         ParseF32(record[get_column_index(headers, "wind_direction")]),
     unit_id |->
         ParseU32(record[get_column_index(headers, "wind_speed_unit_id")]),
     opr_type |->
         ParseU32(record[get_column_index(headers, "src_opr_type")])]

(* One turn of the loop over rdr.records(): a date that does not parse is  *)
(* an error, an id that does not parse is a panic (unwrap).                *)
parse_record(headers, record) ==
    LET date_time == record[get_column_index(headers, "ob_time")]
        id == record[get_column_index(headers, "id")]
    IN  IF date_time \notin DateTimes THEN Failed("CsvDateParseError")
        ELSE IF ParseU32(id) = None THEN Panicked
        ELSE Parsed([date_time |-> date_time, id |-> ParseU32(id)[1],
                     wind |-> parse_wind(headers, record)])

(* parse_observations: the first column that is missing, else the first    *)
(* record that fails, else one observation per record, in order.           *)
parse_observations(lines) ==
    LET csv == vec_to_csv(lines)
        headers == IF csv.value = <<>> THEN <<>> ELSE csv.value[1]
        records == IF csv.value = <<>> THEN <<>> ELSE Tail(csv.value)
        missing == {k \in DOMAIN Columns :
                        get_column_index(headers, Columns[k]) = 0}
        failing == {k \in DOMAIN records :
                        parse_record(headers, records[k]).kind # "Ok"}
    IN  IF csv.kind # "Ok" THEN csv
        ELSE IF missing # {}
             THEN Failed(ColumnNotFound[Columns[Min(missing)]])
        ELSE IF failing # {}
             THEN parse_record(headers, records[Min(failing)])
        ELSE Parsed([k \in DOMAIN records |->
                        parse_record(headers, records[k]).value])

(* CedaCsvReader::new: each step's `?` returns the first failure. *)
CedaCsvReader_new(file) ==
    LET lines == file.lines
        steps == <<parse_midas_station_id(lines),
                   parse_historic_county_name(lines),
                   parse_observation_station(lines),
                   parse_location(lines),
                   parse_height(lines),
                   parse_date_valid(lines),
                   parse_observations(lines)>>
        failing == {k \in DOMAIN steps : steps[k].kind # "Ok"}
    IN  IF file.state = "missing" THEN Failed("FileNotFound")
        ELSE IF file.state = "unreadable" THEN Failed("FileReadError")
        ELSE IF failing # {} THEN steps[Min(failing)]
        ELSE Parsed([midas_station_id |-> steps[1].value,
                     historic_county_name |-> steps[2].value,
                     observation_station |-> steps[3].value,
                     location |-> steps[4].value,
                     height |-> steps[5].value,
                     date_valid |-> steps[6].value,
                     observations |-> steps[7].value])

-----------------------------------------------------------------------------
(* The data files of the datastore, as the catalog publishes them.         *)

NumDataFiles == 6

MaxRows == 2

Digits == <<"1", "2", "3", "4", "5", "6", "7", "8", "9">>

CsvFile(lines) == [state |-> "ok", lines |-> lines]

Comment == <<"Conventions", "G", "BADC-CSV", "1">>

(* Lines 0 to 16 of a data file of the station with this id. *)
Metadata(id) ==
    [n \in 1..10 |-> Comment]
        \o << <<"observation_station", "G", "portglenone">>,
              <<"historic_county_name", "G", "antrim">>,
              <<"authority", "G", "Met Office">>,
              <<"midas_station_id", "G", id>>,
              <<"location", "G", "54.865", "-6.458">>,
              <<"height", "G", "64", "m">>,
              <<"date_valid", "G", "1994-01-01 00:00:00",
                "1994-12-31 23:59:59">> >>

GoodRows ==
    << <<"1994-10-01 00:00:00", "1", "4", "170", "", "">>,
       <<"1994-10-01 01:00:00", "2", "", "", "4", "1">>,
       <<"1994-10-01 02:00:00", "3", "4", "170", "4", "1">> >>

Table(header, rows) == << <<"data">>, header >> \o rows \o << <<"end data">> >>

(* The k-th data file: two files (two years) for each station. *)
DataFile(k) ==
    CsvFile(Metadata(Digits[(k + 1) \div 2])
                \o Table(Columns, SubSeq(GoodRows, 1, ((k - 1) % 2) + 1)))

(* Ways a line can be malformed: a field replaced, or fields missing. *)
Mutations(line) ==
    {[line EXCEPT ![j] = "n/a"] : j \in {1, 3, 4} \cap DOMAIN line}
        \cup {SubSeq(line, 1, m) : m \in 1..(Len(line) - 1)}

BaseMetadata == Metadata("00144")

MetadataLines == {10, 11, 13, 14, 15, 16}

MetadataVariants ==
    {BaseMetadata}
        \cup UNION {{[BaseMetadata EXCEPT ![n + 1] = m] :
                         m \in Mutations(BaseMetadata[n + 1])} :
                     n \in MetadataLines}
        \cup {SubSeq(BaseMetadata, 1, m) : m \in 0..16}

RowKinds ==
    {GoodRows[1], GoodRows[2],
     <<"1994-10-01 03:00:00", "n/a", "4", "170", "", "">>,
     <<"01/10/1994 04:00", "4", "4", "170", "", "">>,
     <<"1994-10-01 01:00:00", "5">>,
     <<"end data">>,
     <<"">>}

RowSeqs == UNION {[1..n -> RowKinds] : n \in 0..MaxRows}

HeaderVariants ==
    {Columns,
     <<"ob_time", "wind_speed", "wind_direction", "wind_speed_unit_id",
       "src_opr_type", "id">>}
        \cup {SelectSeq(Columns, LAMBDA c : c # Columns[j]) : j \in 2..6}

CsvFiles ==
    {CsvFile(m \o Table(Columns, rows)) :
        m \in MetadataVariants, rows \in RowSeqs}
        \cup {CsvFile(BaseMetadata \o Table(h, rows)) :
                 h \in HeaderVariants, rows \in RowSeqs}
        \cup {CsvFile(BaseMetadata \o rows) : rows \in RowSeqs}
        \cup {CsvFile(BaseMetadata \o <<GoodRows[3]>> \o Table(Columns, rows)) :
                 rows \in RowSeqs}
        \cup {[state |-> s, lines |-> <<>>] : s \in {"missing", "unreadable"}}

-----------------------------------------------------------------------------
(* process(init) (src/cli/command/process.rs) and the database (src/db.rs). *)
(* A table is the sequence of its rows in insertion order.                  *)

TakeLimit == 5

MaxRuns == 2

EmptyDatabase == [tables |-> TRUE, stations |-> <<>>, observations |-> <<>>]

StationRow(record) ==
    [midas_station_id |-> record.midas_station_id,
     historic_county_name |-> record.historic_county_name,
     observation_station |-> record.observation_station,
     lat |-> record.location.lat,
     lon |-> record.location.lon,
     height |-> record.height]

ObservationRow(record, observation) ==
    [midas_station_id |-> record.midas_station_id,
     date_time |-> observation.date_time,
     wind_speed |-> observation.wind.speed,
     wind_direction |-> observation.wind.direction,
     wind_unit_id |-> observation.wind.unit_id,
     wind_opr_type |-> observation.wind.opr_type]

(* Rows left by an earlier load of some other station. *)
OldDatabase ==
    [tables |-> TRUE,
     stations |-> <<StationRow(CedaCsvReader_new(
                        CsvFile(BaseMetadata \o Table(Columns, <<>>))).value)>>,
     observations |->
        <<[midas_station_id |-> 144, date_time |-> "1994-10-01 00:00:00",
           wind_speed |-> None, wind_direction |-> None,
           wind_unit_id |-> None, wind_opr_type |-> None]>>]

(* process() returns: by Ok(()), by an error (`?`), or by a panic. *)
Returns(p, result) == [p EXCEPT !.pc = "done", !.ret = result]

(* The head of the loop over the data files: the next file, or Ok(()). *)
ForDataFile(p, k) ==
    IF k <= Len(p.data_files)
    THEN [p EXCEPT !.pc = "read", !.next = k, !.record = <<>>, !.row = 0]
    ELSE Returns([p EXCEPT !.next = k, !.record = <<>>, !.row = 0], "Ok")

(* The head of the loop over the observations of the file's record. *)
ForObservation(p, k) ==
    IF k <= Len(p.record.observations)
    THEN [p EXCEPT !.pc = "observation", !.row = k]
    ELSE ForDataFile(p, p.next + 1)

(* Database::new().await.unwrap(), then `if init` *)
DatabaseNew ==
    /\ proc.pc = "new"
    /\ \E connected \in BOOLEAN :
          proc' = IF ~connected THEN Returns(proc, "Panic")
                  ELSE [proc EXCEPT !.pc = IF proc.init THEN "drop" ELSE "list"]
    /\ UNCHANGED <<dataFiles, db, pipelineVars, selectVars>>

DropTables_kept(ok) ==
    /\ proc.pc = "drop"
    /\ proc' = IF ok THEN [proc EXCEPT !.pc = "create"]
               ELSE Returns(proc, "DatabaseConnectionError")
    /\ UNCHANGED <<dataFiles, db, pipelineVars, selectVars>>

(* db.init(), first query: DROP TABLE IF EXISTS stations, observations *)
DropTables(ok) ==
    /\ proc.pc = "drop"
    /\ IF ok
       THEN /\ db' = NoDatabase
            /\ proc' = [proc EXCEPT !.pc = "create"]
       ELSE /\ db' = db
            /\ proc' = Returns(proc, "DatabaseConnectionError")
    /\ UNCHANGED <<dataFiles, pipelineVars, selectVars>>

(* db.init(), second query: CREATE TABLE IF NOT EXISTS *)
CreateTables(ok) ==
    /\ proc.pc = "create"
    /\ IF ok
       THEN /\ db' = [db EXCEPT !.tables = TRUE]
            /\ proc' = [proc EXCEPT !.pc = "list"]
       ELSE /\ db' = db
            /\ proc' = Returns(proc, "DatabaseConnectionError")
    /\ UNCHANGED <<dataFiles, pipelineVars, selectVars>>

(* datastore.list_data_files().into_iter().take(5) *)
ListDataFiles ==
    /\ proc.pc = "list"
    /\ proc' = ForDataFile(
                  [proc EXCEPT !.data_files =
                      SubSeq(dataFiles, 1, Min({TakeLimit, Len(dataFiles)}))],
                  1)
    /\ UNCHANGED <<dataFiles, db, pipelineVars, selectVars>>

(* let record = CedaCsvReader::new(data_file.path)?; *)
ReadFile ==
    /\ proc.pc = "read"
    /\ LET result == CedaCsvReader_new(proc.data_files[proc.next])
       IN  proc' = CASE result.kind = "Ok" ->
                         [proc EXCEPT !.pc = "station", !.record = result.value]
                     [] result.kind = "Err" -> Returns(proc, result.err)
                     [] result.kind = "Panic" -> Returns(proc, "Panic")
    /\ UNCHANGED <<dataFiles, db, pipelineVars, selectVars>>

(* INSERT INTO stations .. ON CONFLICT(midas_station_id) DO NOTHING *)
insert_station(table, row) ==
    IF \E k \in DOMAIN table : table[k].midas_station_id = row.midas_station_id
    THEN table
    ELSE Append(table, row)

(* INSERT INTO observations .. ON CONFLICT(id) DO NOTHING: id is the       *)
(* autoincremented key, which the statement does not give, so no conflict. *)
insert_observation(table, row) == Append(table, row)

(* db.insert_station(..).await?; the query fails when the table is missing *)
InsertStation(ok) ==
    /\ proc.pc = "station"
    /\ IF ok /\ db.tables
       THEN /\ db' = [db EXCEPT !.stations =
                         insert_station(@, StationRow(proc.record))]
            /\ proc' = ForObservation(proc, 1)
       ELSE /\ db' = db
            /\ proc' = Returns(proc, "DatabaseConnectionError")
    /\ UNCHANGED <<dataFiles, pipelineVars, selectVars>>

(* Mutant: a failed insert takes back the rows of the file it failed in. *)
InsertObservation_rollback(ok) ==
    /\ proc.pc = "observation"
    /\ IF ok /\ db.tables
       THEN /\ db' = [db EXCEPT !.observations =
                         insert_observation(@,
                             ObservationRow(proc.record,
                                 proc.record.observations[proc.row]))]
            /\ proc' = ForObservation(proc, proc.row + 1)
       ELSE /\ db' = [db EXCEPT !.observations =
                         SubSeq(@, 1, Len(@) - (proc.row - 1))]
            /\ proc' = Returns(proc, "DatabaseConnectionError")
    /\ UNCHANGED <<dataFiles, pipelineVars, selectVars>>

(* db.insert_observation(..).await?; *)
InsertObservation(ok) ==
    /\ proc.pc = "observation"
    /\ IF ok /\ db.tables
       THEN /\ db' = [db EXCEPT !.observations =
                         insert_observation(@,
                             ObservationRow(proc.record,
                                 proc.record.observations[proc.row]))]
            /\ proc' = ForObservation(proc, proc.row + 1)
       ELSE /\ db' = db
            /\ proc' = Returns(proc, "DatabaseConnectionError")
    /\ UNCHANGED <<dataFiles, pipelineVars, selectVars>>

(* The command is run again on the same datastore and database; `earlier` *)
(* keeps how the run before ended and the database it left.               *)
ProcessAgain ==
    /\ proc.pc = "done"
    /\ proc.run < MaxRuns
    /\ \E init \in BOOLEAN :
          proc' = [NotProcessing EXCEPT !.pc = "new", !.init = init,
                                        !.run = proc.run + 1,
                                        !.earlier = <<[ret |-> proc.ret,
                                                       db |-> db]>>]
    /\ UNCHANGED <<dataFiles, db, pipelineVars, selectVars>>

(* update() has returned; nothing of the pipeline is running. *)
Harvested ==
    /\ token = "valid"
    /\ pc = "download"
    /\ ret = "Ok"
    /\ countyLinks = <<>>
    /\ stationLinks = <<>>
    /\ folderLinks = <<>>
    /\ fileLinks = <<>>
    /\ tasks = NoTasks
    /\ store = FullStore
    /\ requests = <<>>
    /\ progress = NoProgress
    /\ previous = NoPrevious
    /\ response = NoResponse
    /\ selected = Pending

(* What the data directory may hold, in the order read_dir gives: the      *)
(* first files of the catalog, one of them possibly malformed.             *)
DataDirectories ==
    LET good == [k \in 1..NumDataFiles |-> DataFile(k)]
        bad == CsvFile(SubSeq(BaseMetadata, 1, 16))
        unparsed == CsvFile(BaseMetadata \o Table(Columns,
                        <<GoodRows[1],
                          <<"01/10/1994 04:00", "4", "4", "170", "", "">> >>))
    IN  {SubSeq(good, 1, n) : n \in 0..NumDataFiles}
            \cup {[SubSeq(good, 1, n) EXCEPT ![k] = f] :
                     n \in {3, NumDataFiles}, k \in {2, 3, NumDataFiles},
                     f \in {bad, unparsed}}

InitProcess ==
    /\ Harvested
    /\ dataFiles \in DataDirectories
    /\ db \in {NoDatabase, EmptyDatabase, OldDatabase}
    /\ \E init \in BOOLEAN :
          proc = [NotProcessing EXCEPT !.pc = "new", !.init = init, !.run = 1]

NextProcess ==
    \/ DatabaseNew
    \/ \E ok \in BOOLEAN : DropTables(ok)
    \/ \E ok \in BOOLEAN : CreateTables(ok)
    \/ ListDataFiles
    \/ ReadFile
    \/ \E ok \in BOOLEAN : InsertStation(ok)
    \/ \E ok \in BOOLEAN : InsertObservation(ok)
    \/ ProcessAgain

SpecProcess == InitProcess /\ [][NextProcess]_vars

(* CedaCsvReader::new on each kind of file. *)
InitCsv ==
    /\ Harvested
    /\ dataFiles \in {<<file>> : file \in CsvFiles}
    /\ db = EmptyDatabase
    /\ proc = [NotProcessing EXCEPT !.pc = "read", !.run = 1,
                                    !.data_files = dataFiles, !.next = 1]

NextCsv == ReadFile

SpecCsv == InitCsv /\ [][NextCsv]_vars

----------------------------------------------------------------------------
(* download_csv of the older client (src/ceda.rs), called MaxDownloads     *)
(* times with the same URL and directory.  tasks["download"] keeps, for    *)
(* each call, what it returned and whether it got to tokio::fs::write.     *)

MaxDownloads == 2

(* Every name a URL of FileUrls can be looked up or written under. *)
OldNames == UrlNames \cup {LastSegment(u) : u \in FileUrls}

OldDirectories ==
    {[name \in OldNames |-> Absent], [name \in OldNames |-> FileOf(Chunks)]}

Called(result, wrote) == [result |-> result, wrote |-> wrote]

(* download_csv(url, dir): the GET and the body first, then the exists     *)
(* check on the last segment of the URL, then the write under the name cut *)
(* after ".csv".  A write that fails may have created the file and written *)
(* a part of the body.                                                     *)
DownloadCsv ==
    /\ pc = "download"
    /\ Len(tasks["download"]) < MaxDownloads
    /\ LET url == fileLinks[1]
           filename == LastSegment(url)
           target == TruncateCsv(filename)
       IN  /\ requests' = Sent(requests, url)
           /\ \E status \in {"send_error", "non_2xx", "body_error", "200"} :
                 IF status # "200"
                 THEN /\ store' = store
                      /\ tasks' = [tasks EXCEPT !["download"] =
                                      Append(@, Called("Err", FALSE))]
                 ELSE IF store[filename].exists
                 THEN /\ store' = store
                      /\ tasks' = [tasks EXCEPT !["download"] =
                                      Append(@, Called("Ok", FALSE))]
                 ELSE \/ /\ store' = [store EXCEPT ![target] = FileOf(Chunks)]
                         /\ tasks' = [tasks EXCEPT !["download"] =
                                         Append(@, Called("Ok", TRUE))]
                      \/ /\ \E part \in (SUBSET Chunks) \ {Chunks} :
                               store' \in {store,
                                           [store EXCEPT ![target] =
                                               FileOf(part)]}
                         /\ tasks' = [tasks EXCEPT !["download"] =
                                         Append(@, Called("Err", TRUE))]
    /\ UNCHANGED <<token, pc, ret, countyLinks, stationLinks, folderLinks,
                   fileLinks, progress, previous, selectVars, processVars>>

InitOldDownload ==
    /\ token = "valid"
    /\ pc = "download"
    /\ ret = "none"
    /\ countyLinks = <<>>
    /\ stationLinks = <<>>
    /\ folderLinks = <<>>
    /\ fileLinks \in {<<u>> : u \in FileUrls}
    /\ tasks = NoTasks
    /\ store \in OldDirectories
    /\ requests = <<>>
    /\ progress = NoProgress
    /\ previous = NoPrevious
    /\ dataFiles = <<>>
    /\ db = NoDatabase
    /\ proc = NotProcessing
    /\ response = NoResponse
    /\ selected = Pending

NextOldDownload == DownloadCsv

SpecOldDownload == InitOldDownload /\ [][NextOldDownload]_vars

----------------------------------------------------------------------------
(* list_data_files and FileProperties::new (src/datastore.rs) on their     *)
(* own.  A file name is a token sequence in which "_" is a token and an    *)
(* extension (".csv", ".gz") is a token.                                   *)

RECURSIVE split(_, _)
(* str::split(sep): the pieces between the separators, empty ones kept *)
split(s, sep) ==
    LET found == {i \in DOMAIN s : s[i] = sep}
    IN  IF found = {} THEN <<s>>
        ELSE <<SubSeq(s, 1, Min(found) - 1)>>
                 \o split(SubSeq(s, Min(found) + 1, Len(s)), sep)

Extensions == {".csv", ".gz"}

(* part.split('.').next().unwrap(): what stands before the first '.' *)
before_dot(part) ==
    LET found == {i \in DOMAIN part : part[i] \in Extensions}
    IN  IF found = {} THEN part ELSE SubSeq(part, 1, Min(found) - 1)

(* str::parse::<u32>() of a piece of a file name *)
parse_part(part) == IF Len(part) = 1 THEN ParseU32(part[1]) ELSE None

(* Mutant: the county and the station name taken from each other's place. *)
FileProperties_swapped(path) ==
    LET parts == split(LastSegment(path), "_")
    IN  IF Len(parts) < 8 THEN Panicked
        ELSE IF parse_part(parts[5]) = None THEN Panicked
        ELSE IF parse_part(before_dot(parts[8])) = None THEN Panicked
        ELSE Parsed([path |-> path,
                     collection_name |-> parts[1],
                     title |-> parts[2],
                     updated |-> parts[3],
                     county_name |-> parts[6],
                     station_id |-> parse_part(parts[5])[1],
                     station_name |-> parts[4],
                     qcv |-> parts[7],
                     year |-> parse_part(before_dot(parts[8]))[1]])

(* FileProperties::new: parts[0] .. parts[7] of the file name split at     *)
(* '_'; an index past the end and an unwrap() of a failed parse panic.     *)
FileProperties_new(path) ==
    LET parts == split(LastSegment(path), "_")
    IN  IF Len(parts) < 5 THEN Panicked
        ELSE IF parse_part(parts[5]) = None THEN Panicked
        ELSE IF Len(parts) < 8 THEN Panicked
        ELSE IF parse_part(before_dot(parts[8])) = None THEN Panicked
        ELSE Parsed([path |-> path,
                     collection_name |-> parts[1],
                     title |-> parts[2],
                     updated |-> parts[3],
                     county_name |-> parts[4],
                     station_id |-> parse_part(parts[5])[1],
                     station_name |-> parts[6],
                     qcv |-> parts[7],
                     year |-> parse_part(before_dot(parts[8]))[1]])

(* The components data file names are made of. *)
NameParts ==
    [collection_name : {"midas-open"},
     title : {"uk-hourly-weather-obs"},
     updated : {"dv-202407"},
     county_name : {"aberdeenshire", "antrim"},
     station_id : {"00144", "01448", "144"},
     station_name : {"corgarff-castle-lodge", "portglenone"},
     qcv : {"qcv-0", "qcv-1"},
     year : {"1994", "1997"}]

(* c_t_u_county_id_name_qcv_year, followed by the extensions *)
DataFileName(p, extensions) ==
    <<p.collection_name, "_", p.title, "_", p.updated, "_", p.county_name,
      "_", p.station_id, "_", p.station_name, "_", p.qcv, "_", p.year>>
        \o extensions

rawdata_dir == <<"/", "raw", "/", "data", "/">>

(* Names that are not data file names: the capability file of a station,   *)
(* a name with a station id or a year that is no number, a hidden file.    *)
OtherNames ==
    {<<"midas-open", "_", "uk-hourly-weather-obs", "_", "dv-202407", "_",
       "aberdeenshire", "_", "00144", "_", "corgarff-castle-lodge", "_",
       "capability", ".csv">>,
     <<"midas-open", "_", "uk-hourly-weather-obs", "_", "dv-202407", "_",
       "aberdeenshire", "_", "n/a", "_", "corgarff-castle-lodge", "_",
       "qcv-1", "_", "1997", ".csv">>,
     <<"midas-open", "_", "uk-hourly-weather-obs", "_", "dv-202407", "_",
       "aberdeenshire", "_", "00144", "_", "corgarff-castle-lodge", "_",
       "qcv-1", "_", "n/a", ".csv">>,
     <<"midas-open", "_", "uk-hourly-weather-obs", "_", "dv-202407", "_",
       "aberdeenshire", "_", "00144", "_", "corgarff-castle-lodge", "_",
       "qcv-1", "_", ".csv">>,
     <<".DS", "_", "Store">>}

DirectoryEntries ==
    {[path |-> rawdata_dir \o DataFileName(p, e)] :
        p \in NameParts, e \in {<<".csv">>, <<".csv", ".gz">>, <<>>}}
        \cup {[path |-> rawdata_dir \o name] : name \in OtherNames}

(* A directory of two entries is made of these. *)
SampleEntries ==
    {[path |-> rawdata_dir \o name] :
        name \in OtherNames
                \cup {DataFileName(p, <<".csv">>) :
                         p \in {q \in NameParts : q.station_id = "00144"
                                                   /\ q.year = "1997"}}}

(* datastore.list_data_files(): FileProperties::new of every entry of      *)
(* raw/data, in the order read_dir gives them.                             *)
ListFileProperties ==
    /\ proc.pc = "properties"
    /\ LET listed == [k \in DOMAIN dataFiles |->
                         FileProperties_new(dataFiles[k].path)]
       IN  proc' = IF \E k \in DOMAIN listed : listed[k].kind # "Ok"
                   THEN Returns(proc, "Panic")
                   ELSE [proc EXCEPT !.pc = "listed",
                                     !.data_files =
                                         [k \in DOMAIN listed |->
                                             listed[k].value]]
    /\ UNCHANGED <<dataFiles, db, pipelineVars, selectVars>>

InitProperties ==
    /\ Harvested
    /\ dataFiles \in {<<entry>> : entry \in DirectoryEntries}
                        \cup {<<first, second>> :
                                 first \in SampleEntries,
                                 second \in SampleEntries}
    /\ db = EmptyDatabase
    /\ proc = [NotProcessing EXCEPT !.pc = "properties", !.run = 1]

NextProperties == ListFileProperties

SpecProperties == InitProperties /\ [][NextProperties]_vars

----------------------------------------------------------------------------
(* Claims.                                                                 *)

StageReturned(stage) ==
    \/ StageIdx(pc) > StageIdx(stage)
    \/ pc = stage /\ ret # "none"

StageSucceeded(stage) ==
    \/ StageIdx(pc) > StageIdx(stage)
    \/ pc = stage /\ ret = "Ok"

StageFailed(stage) == pc = stage /\ ret \in {"Err", "Panic"}

Output(stage) ==
    CASE stage = "counties" -> countyLinks
      [] stage = "stations" -> stationLinks
      [] stage = "folders"  -> folderLinks
      [] stage = "files"    -> fileLinks
      [] stage = "download" -> <<>>

Range(seq) == {seq[i] : i \in DOMAIN seq}

OkTasks(stage) ==
    {i \in DOMAIN tasks[stage] : tasks[stage][i].result.kind = "Ok"}

(* C1: download idempotence.  When a call of download_csv for a url has    *)
(* returned Ok, no other call is running and the destination file exists,  *)
(* a following call for the same url sends no GET request, leaves the data *)
(* directory as it is and returns Ok.                                      *)
C1_SecondCallIsNoOp ==
    [][\A i \in DOMAIN tasks["download"] :
          LET t == tasks["download"][i]
          IN  ( /\ t.pc = "send"
                /\ store[FileName(t.item)].exists
                /\ \E j \in OkTasks("download") :
                      j # i /\ tasks["download"][j].item = t.item
                /\ \A j \in DOMAIN tasks["download"] :
                      j # i => Finished(tasks["download"][j])
                /\ tasks'["download"][i] # t )
              => ( /\ requests' = requests
                   /\ store' = store
                   /\ tasks'["download"][i].result.kind = "Ok" )]_vars

(* C2: partial success never aborts a stage.  Once a resolution stage has  *)
(* returned with at least one item resolved, it has returned Ok and its    *)
(* output holds the links of every resolved item.                          *)
C2_PartialSuccessNeverAborts ==
    \A stage \in {"stations", "folders", "files"} :
        (StageReturned(stage) /\ OkTasks(stage) # {})
        => /\ StageSucceeded(stage)
           /\ \A i \in OkTasks(stage) :
                 Range(tasks[stage][i].result.links) \subseteq Range(Output(stage))

IsPrefix(p, q) == Len(p) <= Len(q) /\ SubSeq(q, 1, Len(p)) = p

FolderFailsForAButNotB(a, b) ==
    /\ a \in DOMAIN tasks["folders"]
    /\ b \in DOMAIN tasks["folders"]
    /\ StageReturned("folders")
    /\ tasks["folders"][a].result = Err("QCV1NotFound")
    /\ tasks["folders"][b].result.kind = "Ok"

(* C3: partial-failure tolerance of the data-folder stage.  When the stage *)
(* has returned, station A failed with QCV1NotFound and station B          *)
(* resolved: the stage returned Ok and update() has not returned an error; *)
(* B's folder is in the input of the data-files stage and, once that stage *)
(* has returned, a task ran on it; no link under A's station is in the     *)
(* output, which holds one link per resolved station.                      *)
C3_FolderPartialFailure ==
    \A a, b \in 1 .. NumStations :
        FolderFailsForAButNotB(a, b)
        => LET folderB == tasks["folders"][b].result.links[1]
           IN  /\ StageSucceeded("folders")
               /\ ret \notin {"Err", "Panic"}
               /\ folderB \in Range(Input("files"))
               /\ StageReturned("files")
                  => \E j \in DOMAIN tasks["files"] :
                        /\ tasks["files"][j].item = folderB
                        /\ Finished(tasks["files"][j])
               /\ \A k \in DOMAIN folderLinks :
                     ~IsPrefix(tasks["folders"][a].item, folderLinks[k])
               /\ Len(folderLinks) = Cardinality(OkTasks("folders"))

C3_Witness ==
    /\ ret = "Ok"
    /\ \E a, b \in 1 .. NumStations :
          /\ FolderFailsForAButNotB(a, b)
          /\ \E j \in OkTasks("files") :
                tasks["files"][j].item = tasks["folders"][b].result.links[1]

(* C4: stage-level failure when everything fails.  Once a stage with a     *)
(* non-empty input has returned and none of its items resolved, it has     *)
(* returned an error.                                                      *)
C4_AllFailedFailsTheStage ==
    \A stage \in StageSet :
        (StageReturned(stage) /\ tasks[stage] # <<>> /\ OkTasks(stage) = {})
        => StageFailed(stage)

(* The failed items a stage reports to update().  Its return value is a   *)
(* Result<Vec<String>, AppError>: the links alone, or one error, which is  *)
(* taken here to stand for every item that failed.                         *)
ReportedFailures(stage) ==
    IF Collect(stage, tasks[stage]).kind = "Ok" THEN {}
    ELSE DOMAIN tasks[stage] \ OkTasks(stage)

(* C5: per-item errors are collected, not dropped.  Once a stage has       *)
(* returned, every item either resolved, with its links in the output of   *)
(* the stage if the stage returned Ok, or is among the failed items the    *)
(* stage reports.                                                          *)
C5_ErrorsAreCollected ==
    \A stage \in StageSet :
        StageReturned(stage)
        => \A i \in DOMAIN tasks[stage] :
              \/ /\ i \in OkTasks(stage)
                 /\ StageSucceeded(stage)
                    => Range(tasks[stage][i].result.links)
                          \subseteq Range(Output(stage))
              \/ i \in ReportedFailures(stage)

(* C8: at most one folder per station.  The data-folder stage puts out no  *)
(* more links than it took station links in; a finished data-folder task   *)
(* holds one link or an error, never an empty success; the output of the   *)
(* stage holds one link per resolved station.                              *)
C8_AtMostOneFolderPerStation ==
    /\ Len(folderLinks) <= Len(stationLinks)
    /\ \A i \in DOMAIN tasks["folders"] :
          LET t == tasks["folders"][i]
          IN  Finished(t)
              => \/ t.result.kind = "Ok" /\ Len(t.result.links) = 1
                 \/ t.result.kind = "Err"
    /\ StageReturned("folders")
       => Len(folderLinks) = Cardinality(OkTasks("folders"))

C8_Witness ==
    /\ StageReturned("folders")
    /\ Len(stationLinks) = NumStations
    /\ Len(folderLinks) = NumStations - 1
    /\ \E i \in DOMAIN tasks["folders"] :
          tasks["folders"][i].result = Err("QCV1NotFound")

(* C9: stop-the-world staging.  A stage has a task only when the stage     *)
(* before it has spawned a task for every one of its items and all of them *)
(* have finished; a stage that has returned has no unfinished task.        *)
C9_StopTheWorld ==
    /\ \A n \in 1 .. Len(Stages) - 1 :
          tasks[Stages[n + 1]] # <<>>
          => /\ Len(tasks[Stages[n]]) = Len(Input(Stages[n]))
             /\ InFlight(Stages[n]) = 0
    /\ \A stage \in StageSet :
          StageReturned(stage)
          => /\ Len(tasks[stage]) = Len(Input(stage))
             /\ InFlight(stage) = 0

C9_Witness ==
    /\ pc = "download"
    /\ InFlight("download") >= 2
    /\ Len(tasks["folders"]) = NumStations
    /\ \E i \in DOMAIN tasks["folders"] : tasks["folders"][i].result.kind = "Err"

(* A concurrency limit that some stage of the catalog has more items than. *)
ConcurrencyLimit == NumStations - 1

(* C10: bounded fan-out.  No stage ever has more than ConcurrencyLimit     *)
(* units of work in flight.                                                *)
C10_BoundedFanOut ==
    \A stage \in StageSet : InFlight(stage) <= ConcurrencyLimit

(* The "#results a" elements of the fetched station page one of whose text *)
(* nodes is the marker.                                                    *)
Marked(t) ==
    {i \in DOMAIN response.doc.results : HasText(response.doc.results[i], t)}

(* C6: selection correctness of the data-folder stage.  When the fetched   *)
(* station page has one anchor with the text "qc-version-1" and that       *)
(* anchor has an href, resolution returns that href, wherever the anchor   *)
(* stands among the others; and whatever resolution returns is the href of *)
(* an anchor with that text, never the href of an anchor with another      *)
(* text only.                                                              *)
C6_SelectsByAnchorText ==
    (selected # Pending /\ response.status = "200")
    => LET as == response.doc.results
       IN  /\ \A i \in DOMAIN as :
                 (Marked(QCV1) = {i} /\ as[i].href # None)
                 => selected = Ok(<<as[i].href[1]>>)
           /\ selected.kind = "Ok"
              => \E i \in Marked(QCV1) : as[i].href = Some(selected.links[1])

C6_Witness ==
    /\ response.status = "200"
    /\ Len(response.doc.results) = 3
    /\ Marked(QCV1) = {3}
    /\ response.doc.results[1] = Anchor(Some(<<"/", QCV1, "/">>), <<"change_log">>)
    /\ response.doc.results[2] = Anchor(Some(<<"/", QCV0, "/">>), <<QCV0>>)
    /\ response.doc.results[3].href = Some(<<"/", QCV0, "/">>)
    /\ selected = Ok(<<<<"/", QCV0, "/">>>>)

(* C7: no fallback.  When the station page was fetched and none of its     *)
(* anchors has the text "qc-version-1", get_data_folder_link returns the   *)
(* error QCV1NotFound, whether or not a "qc-version-0" anchor is there;    *)
(* when the fetch failed it returns another error, DocumentFetchError.     *)
C7_NoFallback ==
    selected # Pending
    => /\ (response.status = "200" /\ Marked(QCV1) = {})
          => selected = Err("QCV1NotFound")
       /\ response.status # "200"
          => /\ selected = Err("DocumentFetchError")
             /\ selected # Err("QCV1NotFound")

C7_Witness ==
    /\ response.status = "200"
    /\ Marked(QCV1) = {}
    /\ \E i \in Marked(QCV0) : response.doc.results[i].href # None
    /\ selected = Err("QCV1NotFound")


----------------------------------------------------------------------------
(* The download stage.                                                     *)

Units == tasks["download"]

FailedUnits == {i \in DOMAIN Units : Units[i].result.kind = "Err"}

OkUnits == {i \in DOMAIN Units : Units[i].result.kind = "Ok"}

(* A unit that returned Ok at the existence check, having written nothing. *)
Skipped(i) == i \in OkUnits /\ Units[i].written = 0

(* A unit that returned Ok after copying the whole body. *)
Fetched(i) == i \in OkUnits /\ Units[i].written = BodyChunks

Complete(name) == store[name] = FileOf(Chunks)

(* C11: a failed download is isolated.  Once download_data has returned    *)
(* with some unit failed (request error, non-2xx status, create or stream  *)
(* copy failure), a unit was spawned for every file link, every unit ran   *)
(* to its end, and the stage returned Ok: the failure did not abort it.    *)
C11_DownloadErrorsAreIsolated ==
    (StageReturned("download") /\ FailedUnits # {})
        => /\ ret = "Ok"
           /\ Len(Units) = Len(fileLinks)
           /\ \A i \in DOMAIN Units :
                 /\ Units[i].item = fileLinks[i]
                 /\ Finished(Units[i])

(* The first unit failed, the second fetched its file, the stage is Ok. *)
C11_Witness ==
    /\ ret = "Ok"
    /\ Len(Units) = 2
    /\ 1 \in FailedUnits
    /\ Fetched(2)
    /\ Complete(FileName(Units[2].item))

(* C12: no partial file is ever visible.  In every reachable state, a      *)
(* state in which a download is under way or has failed in its stream copy *)
(* included, a file that exists in the data directory holds the whole      *)
(* remote body.                                                            *)
C12_NoPartialFileVisible ==
    \A name \in DOMAIN store : store[name].exists => Complete(name)

(* The units spawned for link u, and whether u is a repeated link. *)
UnitsFor(u) == {i \in DOMAIN Units : Units[i].item = u}

Repeated(u) == Cardinality({i \in DOMAIN fileLinks : fileLinks[i] = u}) > 1

(* The units whose destination is the file `name`. *)
UnitsInto(name) == {i \in DOMAIN Units : FileName(Units[i].item) = name}

(* C13: repeated links are harmless under concurrency.  When a file link   *)
(* occurs more than once in the stage's input, no other link of the input  *)
(* has its destination, and every unit spawned for it has returned Ok,     *)
(* whatever the order of their existence checks, File::create calls and    *)
(* writes was, its destination file exists and holds the whole remote body *)
(* once the stage has returned.                                            *)
C13_RepeatedLinksAreHarmless ==
    \A u \in Range(fileLinks) :
        (/\ StageReturned("download")
         /\ Repeated(u)
         /\ UnitsInto(FileName(u)) = UnitsFor(u)
         /\ UnitsFor(u) \subseteq OkUnits)
            => Complete(FileName(u))

(* Both units for the one link passed the existence check before either    *)
(* created the file, and both wrote the whole body.                        *)
C13_Witness ==
    /\ ret = "Ok"
    /\ Len(fileLinks) = 2
    /\ fileLinks[1] = fileLinks[2]
    /\ Fetched(1)
    /\ Fetched(2)
    /\ Complete(FileName(fileLinks[1]))

C15_EndToEnd ==
    (ret = "Ok" /\ EveryFetchSucceeded)
        => /\ Len(Units) = Len(fileLinks)
           /\ \A i \in DOMAIN Units : requests[Units[i].item] = 1
           /\ ~previous.ran => \A i \in DOMAIN Units : Fetched(i)
           /\ previous.ran =>
                 /\ Len(Units) = Len(previous.tasks["download"])
                 /\ \A i \in DOMAIN Units : Skipped(i)
                 /\ store = previous.store

(* The second run has returned: NumFiles attempts, every one a skip. *)
C15_Witness ==
    /\ previous.ran
    /\ ret = "Ok"
    /\ EveryFetchSucceeded
    /\ Len(Units) = NumFiles
    /\ Len(previous.tasks["download"]) = NumFiles
    /\ \A i \in DOMAIN Units : Skipped(i)
    /\ \A k \in Files : Complete(FileName(FileLink(k)))

----------------------------------------------------------------------------
(* Link extraction.                                                        *)

(* The hrefs of the elements of `anchors` whose index is in `keep`, in     *)
(* document order.                                                         *)
HrefsAt(anchors, keep) ==
    LET idx == SortedSeq(keep)
    IN  [k \in 1 .. Len(idx) |-> anchors[idx[k]].href[1]]

StartsWithBasePath(h) == Len(h) >= 2 /\ SubSeq(h, 1, 2) = <<"/", "badc">>

EndsWithChangeLog(h) ==
    h # <<>> /\ h[Len(h)] = "change_log_station_files"

(* C16: the counties filter.  get_county_links returns exactly the hrefs   *)
(* of the root page's "#results a" elements, in document order, that start *)
(* with /badc and do not end with change_log_station_files.                *)
C16_CountiesFilter ==
    (pc = "counties" /\ selected.kind = "Ok")
        => LET as == response.doc.results
           IN  selected.links =
                   HrefsAt(as, {i \in DOMAIN as :
                                   /\ as[i].href # None
                                   /\ StartsWithBasePath(as[i].href[1])
                                   /\ ~EndsWithChangeLog(as[i].href[1])})

(* Two county links and the change log: the two county links come back. *)
C16_Witness ==
    /\ pc = "counties"
    /\ response.doc.results =
           <<Anchor(Some(CountyLink(1)), <<"a">>),
             Anchor(Some(CountyLink(2)), <<"a">>),
             Anchor(Some(ChangeLogLink), <<"a">>)>>
    /\ selected = Ok(<<CountyLink(1), CountyLink(2)>>)

(* The elements the call's selector matches on the page it was given. *)
Matched ==
    IF pc = "stations" THEN response.doc.table ELSE response.doc.results

(* C20: link extraction.  get_station_links and get_data_file_links return *)
(* the href values of the elements their selector matches, in document     *)
(* order; an element without an href is skipped, and so is one whose href  *)
(* is "": no entry of the result is the empty string.                      *)
C20_LinkExtraction ==
    (pc \in {"stations", "files"} /\ selected.kind = "Ok")
        => /\ selected.links =
                 HrefsAt(Matched, {i \in DOMAIN Matched :
                                      /\ Matched[i].href # None
                                      /\ Matched[i].href[1] # <<>>})
           /\ \A k \in DOMAIN selected.links : selected.links[k] # <<>>

----------------------------------------------------------------------------
(* The destination file name.                                              *)

(* name is the last '/'-separated segment of url, cut just after its first *)
(* ".csv" when it has one.                                                 *)
IsDerivedName(url, name) ==
    \E i \in 0 .. Len(url) : \E j \in i .. Len(url) :
        /\ name = SubSeq(url, i + 1, j)
        /\ i = 0 \/ url[i] = "/"
        /\ \A k \in i + 1 .. Len(url) : url[k] # "/"
        /\ \/ j = Len(url) /\ \A k \in i + 1 .. j : url[k] # ".csv"
           \/ j > i /\ url[j] = ".csv" /\ \A k \in i + 1 .. j - 1 : url[k] # ".csv"

(* C17: file name derivation.  For every file URL the destination name is  *)
(* the URL's last '/'-separated segment cut just after its first ".csv"    *)
(* (the whole segment when it has none), and both the existence check and  *)
(* the write go by that name: a unit skips only when that file exists,     *)
(* goes on to create only when it does not, writes its chunks into that    *)
(* file, and touches no other.                                             *)
C17_FilenameDerivation ==
    \A i \in DOMAIN Units :
        \E name \in DOMAIN store :
            /\ IsDerivedName(Units[i].item, name)
            /\ Skipped(i) => store[name].exists
            /\ Units[i].pc = "create" => ~store[name].exists
            /\ (Units[i].pc = "copy" \/ Fetched(i))
                  => store[name] = FileOf(1 .. Units[i].written)
            /\ \A other \in DOMAIN store \ {name} :
                  store[other] \in {Absent, FileOf(Chunks)}

(* ".../obs.csv?download=1" was fetched into obs.csv, not into             *)
(* obs.csv?download=1.                                                     *)
C17_Witness ==
    /\ Len(Units) = 1
    /\ Units[1].item = <<"/", "obs", ".csv", "?download=1">>
    /\ Fetched(1)
    /\ Complete(<<"obs", ".csv">>)
    /\ \A other \in DOMAIN store \ {<<"obs", ".csv">>} : ~store[other].exists

----------------------------------------------------------------------------
(* The links that pass from stage to stage.                                *)

(* Every href attribute value on a page, under either selector. *)
HrefsOn(doc) ==
    {a.href[1] : a \in {b \in Range(doc.results) \cup Range(doc.table) :
                            b.href # None}}

(* C18: no stage invents links.  Every item a task of the Stations,        *)
(* Data-Folder, Data-Files or Download stage was spawned for is an element *)
(* of the preceding stage's output, and every link of a resolution stage's *)
(* output was returned by one of the stage's own tasks and is an href of a *)
(* page the server holds for that task's item.                             *)
C18_NoStageInventsLinks ==
    /\ \A n \in 2 .. Len(Stages) :
          \A i \in DOMAIN tasks[Stages[n]] :
              tasks[Stages[n]][i].item \in Range(Output(Stages[n - 1]))
    /\ \A n \in 1 .. Len(Stages) - 1 :
          \A link \in Range(Output(Stages[n])) :
              \E i \in OkTasks(Stages[n]) :
                  /\ link \in Range(tasks[Stages[n]][i].result.links)
                  /\ \E doc \in Docs(tasks[Stages[n]][i].item) :
                        link \in HrefsOn(doc)

(* A run in which links went through all four hand-overs. *)
C18_Witness ==
    /\ ret = "Ok"
    /\ pc = "download"
    /\ Len(countyLinks) = NumCounties
    /\ Len(stationLinks) = NumStations
    /\ folderLinks # <<>>
    /\ fileLinks # <<>>
    /\ Len(Units) = Len(fileLinks)

----------------------------------------------------------------------------
(* The Data-Files stage.                                                   *)

(* Every href a page lists under "#results a", in document order. *)
Listed(doc) ==
    HrefsAt(doc.results, {i \in DOMAIN doc.results : doc.results[i].href # None})

RECURSIVE Concat(_)
Concat(seqs) ==
    IF seqs = <<>> THEN <<>> ELSE Head(seqs) \o Concat(Tail(seqs))

(* C19: Data-Files neither filters nor deduplicates.  When the stage has   *)
(* returned, its output is the concatenation, in task order and with       *)
(* multiplicity, of every href listed on the page each of its successful   *)
(* tasks fetched, the capability file's included, and the download bar's   *)
(* total is the length of that output.                                     *)
C19_DataFilesKeepsEverything ==
    pc = "download"
        => LET idx == SortedSeq(OkTasks("files"))
           IN  /\ \E page \in [OkTasks("files") -> UNION {Docs(l) : l \in Range(folderLinks)}] :
                     /\ \A i \in OkTasks("files") :
                           page[i] \in Docs(tasks["files"][i].item)
                     /\ fileLinks =
                           Concat([k \in 1 .. Len(idx) |-> Listed(page[idx[k]])])
               /\ progress["download"].len = Len(fileLinks)

(* The same folder fetched twice: the capability file and the file the     *)
(* page lists twice are all in the output, six links in all.               *)
C19_Witness ==
    /\ pc = "download"
    /\ folderLinks = <<SampleFolderLink, SampleFolderLink>>
    /\ fileLinks = <<CapabilityLink, SampleFileLink(1), SampleFileLink(1),
                     CapabilityLink, SampleFileLink(1), SampleFileLink(1)>>
    /\ progress["download"].len = 6
    /\ Len(Units) = 6

----------------------------------------------------------------------------
(* Requests and their answers.                                             *)

(* The one task of the stage has sent its request. *)
Requested ==
    /\ Len(tasks[pc]) = 1
    /\ tasks[pc][1].pc \notin {"fetch", "send"}

(* C21: a non-2xx status is always an error.  When the answer to a         *)
(* document fetch or to a download request has a non-2xx status, the       *)
(* operation has ended once the answer is there, with an error and never   *)
(* with Ok, it has sent exactly one request (no retry), and the data       *)
(* directory is as it was: no file was created or modified.                *)
C21_Non2xxIsAnError ==
    (response.status = "non_2xx" /\ Requested)
        => /\ Finished(tasks[pc][1])
           /\ tasks[pc][1].result.kind \in {"Err", "Panic"}
           /\ pc = "download" => tasks[pc][1].result = Err("GenericError")
           /\ \E url \in DOMAIN requests : requests = (url :> 1)
           /\ store \in {EmptyStore, FullStore}

(* A download answered with a non-2xx status: one request, an Err, and the *)
(* directory still empty.                                                  *)
C21_Witness ==
    /\ pc = "download"
    /\ response.status = "non_2xx"
    /\ Requested
    /\ tasks[pc][1].result = Err("GenericError")
    /\ requests = (FileLink(1) :> 1)
    /\ store = EmptyStore

(* C22: a missing credential is fatal before any network activity.  When   *)
(* the access token is not set, update() ends while it builds its client:  *)
(* it never enters a stage, spawns no task and sends no request.           *)
C22_MissingTokenIsFatal ==
    token = "absent"
        => /\ pc = "new"
           /\ tasks = NoTasks
           /\ requests = <<>>
           /\ ret \in {"none", "Panic"}

(* update() has ended at CedaClient::new, nothing requested. *)
C22_Witness ==
    /\ token = "absent"
    /\ pc = "new"
    /\ ret = "Panic"
    /\ requests = <<>>

(* A file name of a capability-descriptor file (..capability.csv). *)
IsCapability(name) == \E k \in DOMAIN name : name[k] = "capability"

(* C23: two destination directories.  No capability file that the pipeline *)
(* resolved is written into the observation data directory.                *)
C23_CapabilityFilesKeptApart ==
    \A name \in DOMAIN store : IsCapability(name) => ~store[name].exists

(* The station and observation rows a well-formed data file gives. *)
StationOf(file) == StationRow(CedaCsvReader_new(file).value)

ObservationsOf(file) ==
    LET record == CedaCsvReader_new(file).value
    IN  {ObservationRow(record, record.observations[k]) :
            k \in DOMAIN record.observations}

Loaded(file) ==
    /\ CedaCsvReader_new(file).kind = "Ok"
    /\ \E k \in DOMAIN db.stations :
          db.stations[k].midas_station_id = StationOf(file).midas_station_id
    /\ ObservationsOf(file) \subseteq Range(db.observations)

ProcessReturnedOk == proc.pc = "done" /\ proc.ret = "Ok"

(* C24: after a run of process() that returned Ok, the station and every   *)
(* observation of every data file the datastore lists are in the database, *)
(* however many files there are.                                           *)
C24_EveryDataFileLoaded ==
    ProcessReturnedOk => \A k \in DOMAIN dataFiles : Loaded(dataFiles[k])

(* C26: with init = true, once db.init() has returned both tables exist    *)
(* and are empty, and from then on, up to and including an Ok return, the  *)
(* database holds only rows of the files processed in this run, whatever   *)
(* it held before.                                                         *)
C26_InitDeletesAllData ==
    proc.init =>
        /\ proc.pc = "list" => db = EmptyDatabase
        /\ (proc.pc \in {"list", "read", "station", "observation"}
                \/ ProcessReturnedOk) =>
              /\ db.tables
              /\ \A row \in Range(db.stations) :
                    \E k \in 1..proc.next :
                        /\ k \in DOMAIN proc.data_files
                        /\ CedaCsvReader_new(proc.data_files[k]).kind = "Ok"
                        /\ row = StationOf(proc.data_files[k])
              /\ \A row \in Range(db.observations) :
                    \E k \in 1..proc.next :
                        /\ k \in DOMAIN proc.data_files
                        /\ CedaCsvReader_new(proc.data_files[k]).kind = "Ok"
                        /\ row \in ObservationsOf(proc.data_files[k])

(* a second run, with init, on a database the first run had filled *)
C26_Witness ==
    /\ ProcessReturnedOk
    /\ proc.init
    /\ proc.run = MaxRuns
    /\ Len(db.stations) > 1
    /\ db.observations # <<>>

(* C25: CedaCsvReader::new does not panic, whatever the file: a file with  *)
(* fewer than 17 lines, a metadata line with fewer than 3 fields and an    *)
(* observation row whose id is not a number each give an Err.              *)
C25_MalformedFileGivesErr ==
    proc.pc = "done" => proc.ret # "Panic"

(* Units of the run before that failed after creating their file: the      *)
(* directory was empty, no other unit wrote that name, and the file exists. *)
FailedMidStream ==
    {i \in DOMAIN previous.tasks["download"] :
        LET before == previous.tasks["download"]
        IN  /\ before[i].result.kind = "Err"
            /\ previous.store[FileName(before[i].item)].exists
            /\ \A j \in DOMAIN before :
                  FileName(before[j].item) = FileName(before[i].item) => j = i}

(* C27: when the download of a file failed mid-stream in one run, and in a *)
(* later run every unit succeeds, then after the later run the file exists *)
(* and holds the whole body.                                               *)
C27_RerunRepairsFailedDownload ==
    (previous.ran /\ StageReturned("download") /\ FailedUnits = {})
        => \A i \in FailedMidStream :
              Complete(FileName(previous.tasks["download"][i].item))

(* The stage has been joined and what it returned is not Ok. *)
ReturnedError(stage) ==
    /\ ~(pc = stage /\ ret = "none")
    /\ StageIdx(pc) >= StageIdx(stage)
    /\ Joined(stage)
    /\ Collect(stage, tasks[stage]).kind # "Ok"

(* update() has returned what the stage returned; nothing later was begun. *)
StoppedAt(stage) ==
    /\ pc = stage
    /\ ret = Collect(stage, tasks[stage]).kind
    /\ \A later \in StageSet :
          StageIdx(later) > StageIdx(stage) => tasks[later] = <<>>
    /\ \A i \in DOMAIN fileLinks : fileLinks[i] \notin DOMAIN requests

(* C28: a stage-level error stops the pipeline.  Every step is taken by an *)
(* update() that has not returned; after it, if a stage has returned an    *)
(* error then update() has returned that error, no unit of a later stage   *)
(* exists and no download request was issued; a stage has units only once  *)
(* update() has reached it, and update() moves from a stage only to the    *)
(* next one in the order counties, stations, folders, files, download.     *)
C28_StageErrorStopsPipeline ==
    [][/\ ret = "none"
       /\ \A stage \in StageSet : ReturnedError(stage)' => StoppedAt(stage)'
       /\ \A stage \in StageSet :
             tasks'[stage] # <<>> => StageIdx(stage) <= StageIdx(pc')
       /\ pc' # pc => StageIdx(pc') = StageIdx(pc) + 1]_vars

(* get_station_links returned Err although one county's stations resolved *)
C28_Witness ==
    /\ pc = "stations"
    /\ ret = "Err"
    /\ \E i \in DOMAIN tasks["stations"] : tasks["stations"][i].result.kind = "Ok"
    /\ tasks["folders"] = <<>>

(* C29: termination.  While update() has not returned, some step of it or  *)
(* of one of its tasks can be taken: nothing waits on anything but its own *)
(* request; and when the steps that can be taken are taken in the end,     *)
(* every run of update() returns.                                          *)
C29_UpdateReturns ==
    /\ [](ret = "none" => ENABLED Next)
    /\ <>(ret # "none")

(* update() has returned after every stage had units and all of them ended *)
C29_Witness ==
    /\ ret # "none"
    /\ \A stage \in StageSet :
          /\ tasks[stage] # <<>>
          /\ \A i \in DOMAIN tasks[stage] : Finished(tasks[stage][i])

(* The links parse_data_links was given. *)
PageLinks == SelectHrefs(response.doc.results)

(* links[k] is the first link that contains the marker. *)
FirstWith(marker, k) ==
    /\ k \in DOMAIN PageLinks
    /\ Contains(PageLinks[k], marker)
    /\ \A j \in 1 .. (k - 1) : ~Contains(PageLinks[j], marker)

(* The folder that was fetched is this link, and nothing else was. *)
FetchedOnly(link) == DOMAIN requests = {Root \o link}

(* C30: once parse_data_links has returned, it fetched the first link that *)
(* contains "qc-version-1" if there is one, whatever comes before it;      *)
(* else the first link that contains "qc-version-0"; and it returned an    *)
(* error, having fetched nothing, exactly when no link contains either.    *)
C30_HistoricFallback ==
    selected # Pending =>
        /\ \A k \in DOMAIN PageLinks :
              FirstWith(QCV1, k) => FetchedOnly(PageLinks[k])
        /\ \A k \in DOMAIN PageLinks :
              (FirstWith(QCV0, k)
                  /\ \A j \in DOMAIN PageLinks : ~Contains(PageLinks[j], QCV1))
                      => FetchedOnly(PageLinks[k])
        /\ selected.kind = "Err" <=>
              \A j \in DOMAIN PageLinks :
                  ~Contains(PageLinks[j], QCV1) /\ ~Contains(PageLinks[j], QCV0)
        /\ selected.kind = "Err" => requests = <<>>

(* a qc-version-0 link comes first, the qc-version-1 link was fetched *)
C30_Witness ==
    /\ selected.kind = "Ok"
    /\ Len(PageLinks) >= 2
    /\ Contains(PageLinks[1], QCV0)
    /\ ~Contains(PageLinks[1], QCV1)
    /\ Contains(PageLinks[2], QCV1)
    /\ FetchedOnly(PageLinks[2])

----------------------------------------------------------------------------
(* The "#results a" elements of the fetched station page whose text is     *)
(* "qc-version-1" and that carry an href.                                  *)
Usable ==
    {i \in DOMAIN response.doc.results :
        /\ response.doc.results[i].texts = <<QCV1>>
        /\ response.doc.results[i].href # None}

FirstOf(S) == CHOOSE i \in S : \A j \in S : i <= j

(* C31: data-folder resolution succeeds whenever a usable match exists.    *)
(* When the fetched station page has at least one anchor with the text     *)
(* "qc-version-1" and an href, resolution returns the href of the first    *)
(* such anchor in document order, also when an earlier anchor with the     *)
(* same text has no href.                                                  *)
C31_FirstUsableMatch ==
    (selected # Pending /\ response.status = "200" /\ Usable # {})
    => selected = Ok(<<response.doc.results[FirstOf(Usable)].href[1]>>)

----------------------------------------------------------------------------
(* process() has returned Ok(()) for the second time in a row, the second  *)
(* time without init.                                                      *)
ProcessedTwice ==
    /\ proc.pc = "done"
    /\ proc.ret = "Ok"
    /\ ~proc.init
    /\ proc.earlier # <<>>
    /\ proc.earlier[1].ret = "Ok"

OneRowPerStation(table) ==
    \A i, j \in DOMAIN table :
        table[i].midas_station_id = table[j].midas_station_id => i = j

(* C32: processing is idempotent.  Running process() twice over the same   *)
(* datastore without init leaves the database with the same station rows   *)
(* and the same observation rows as running it once, and at most one       *)
(* station row exists per midas_station_id whatever was inserted.          *)
C32_ProcessIsIdempotent ==
    /\ OneRowPerStation(db.stations)
    /\ ProcessedTwice
       => /\ db.stations = proc.earlier[1].db.stations
          /\ db.observations = proc.earlier[1].db.observations

----------------------------------------------------------------------------
(* The observation rows process() inserts for a file, in insertion order.  *)
RowsOf(file) ==
    LET record == CedaCsvReader_new(file).value
    IN  [k \in DOMAIN record.observations |->
            ObservationRow(record, record.observations[k])]

RECURSIVE AllRows(_)
AllRows(files) ==
    IF files = <<>> THEN <<>> ELSE RowsOf(Head(files)) \o AllRows(Tail(files))

(* process() has returned from inside its loop otherwise than by Ok(()). *)
FailedInLoop == proc.pc = "done" /\ proc.ret # "Ok" /\ proc.next >= 1

(* What this run had inserted when it stopped: every row of the files      *)
(* before the failing one, and the rows of the failing file before the     *)
(* failing row.                                                            *)
InsertedBeforeFailure ==
    AllRows(SubSeq(proc.data_files, 1, proc.next - 1))
        \o (IF proc.row > 0
            THEN SubSeq(RowsOf(proc.data_files[proc.next]), 1, proc.row - 1)
            ELSE <<>>)

NothingRolledBack ==
    FailedInLoop =>
        /\ LET n == Len(db.observations)
               m == Len(InsertedBeforeFailure)
           IN  /\ m <= n
               /\ SubSeq(db.observations, n - m + 1, n) = InsertedBeforeFailure
        /\ \A k \in 1..(proc.next - 1) :
              \E i \in DOMAIN db.stations :
                 db.stations[i].midas_station_id
                    = StationOf(proc.data_files[k]).midas_station_id
        /\ proc.row > 0 =>
              \E i \in DOMAIN db.stations :
                 db.stations[i].midas_station_id = proc.record.midas_station_id

FailsFast ==
    /\ (proc.pc \in {"read", "station", "observation"}
            /\ proc'.pc = "done" /\ proc'.ret # "Ok")
       => /\ db' = db
          /\ proc'.next = proc.next
          /\ proc'.row = proc.row
          /\ proc.pc = "read" =>
                LET result == CedaCsvReader_new(proc.data_files[proc.next])
                IN  proc'.ret = IF result.kind = "Err" THEN result.err
                                ELSE "Panic"
          /\ proc.pc # "read" => proc'.ret = "DatabaseConnectionError"
    /\ proc.pc = "done" => db' = db /\ proc'.pc \in {"done", "new"}

(* C33: process() fails fast and does not roll back.  When reading a data  *)
(* file or inserting one of its records fails, process() returns that      *)
(* error at once, at the file and row it was at; after it has returned no  *)
(* later file is read and nothing is inserted; and the stations and        *)
(* observations inserted for earlier files and for earlier rows of the     *)
(* failing file are still in the database.                                 *)
C33_FailsFastNoRollback == [][FailsFast]_vars /\ []NothingRolledBack

(* the insert of the second row of the second file failed, after the first *)
(* file and the first row were inserted and with files still to come       *)
C33_Witness ==
    /\ proc.pc = "done"
    /\ proc.ret = "DatabaseConnectionError"
    /\ proc.next = 2
    /\ proc.row = 2
    /\ Len(proc.data_files) > 2
    /\ db.observations = RowsOf(dataFiles[1]) \o SubSeq(RowsOf(dataFiles[2]), 1, 1)
    /\ Len(db.stations) = 1

----------------------------------------------------------------------------
(* CedaCsvReader::new has returned Ok for the file it was given. *)
FileParsed == proc.pc = "station" /\ proc.next \in DOMAIN proc.data_files

FileLines == proc.data_files[proc.next].lines

HeaderLines == {k \in DOMAIN FileLines : FileLines[k][1] = "ob_time"}

(* The lines after the first header line that are not "end data" lines. *)
ObservationLines ==
    {k \in (Min(HeaderLines) + 1)..Len(FileLines) :
        FileLines[k][1] # "end data"}

(* The field of a line under the column of that name. *)
Field(k, column) ==
    LET header == FileLines[Min(HeaderLines)]
    IN  FileLines[k][Min({c \in DOMAIN header : header[c] = column})]

(* C34: observation extraction.  When a file is parsed, its observations   *)
(* correspond one-to-one and in order to the lines that follow the first   *)
(* line whose first comma-separated field is "ob_time", leaving out every  *)
(* line whose first field is "end data": the n-th observation holds the    *)
(* fields of the n-th such line.  Lines before the header produce none.    *)
C34_ObservationsFollowHeader ==
    FileParsed =>
        /\ HeaderLines # {}
        /\ Len(proc.record.observations) = Cardinality(ObservationLines)
        /\ \A k \in ObservationLines :
              LET n == Cardinality({j \in ObservationLines : j <= k})
                  observation == proc.record.observations[n]
              IN  /\ observation.date_time = Field(k, "ob_time")
                  /\ Some(observation.id) = ParseU32(Field(k, "id"))
                  /\ observation.wind.speed = ParseF32(Field(k, "wind_speed"))
                  /\ observation.wind.direction
                        = ParseF32(Field(k, "wind_direction"))
                  /\ observation.wind.unit_id
                        = ParseU32(Field(k, "wind_speed_unit_id"))
                  /\ observation.wind.opr_type
                        = ParseU32(Field(k, "src_opr_type"))

(* a data-like line before the header and an "end data" line before the   *)
(* only row: one observation, from that row                                *)
C34_Witness ==
    /\ FileParsed
    /\ FileLines[Min(HeaderLines) - 2] = GoodRows[3]
    /\ SubSeq(FileLines, Min(HeaderLines) + 1, Len(FileLines))
          = << <<"end data">>, GoodRows[2], <<"end data">> >>
    /\ Len(proc.record.observations) = 1
    /\ proc.record.observations[1].date_time = GoodRows[2][1]

----------------------------------------------------------------------------
(* The metadata fields CedaCsvReader reads: the line (counted from 0), the *)
(* label expected there, and the error variants of the field in AppError.  *)
MetadataFields ==
    {[line |-> 10, label |-> "observation_station",
      errors |-> {"CsvObservationStationParsingError"}],
     [line |-> 11, label |-> "historic_county_name",
      errors |-> {"CsvHistoricCountyNameParsingError"}],
     [line |-> 13, label |-> "midas_station_id",
      errors |-> {"CsvMidasStationIdParsingError"}],
     [line |-> 14, label |-> "location",
      errors |-> {"CsvLocationMissingError", "CsvLocationParsingError"}],
     [line |-> 15, label |-> "height",
      errors |-> {"CsvHeightParsingError"}],
     [line |-> 16, label |-> "date_valid",
      errors |-> {"CsvDateValidMissingError"}]}

(* CedaCsvReader::new has returned for a readable file that has all the    *)
(* metadata lines.                                                         *)
MetadataRead ==
    /\ proc.pc \in {"station", "done"}
    /\ proc.next \in DOMAIN proc.data_files
    /\ proc.data_files[proc.next].state = "ok"
    /\ Len(FileLines) > 16

(* The line of the field has another label; the other fields' lines are    *)
(* well-formed.                                                            *)
OnlyLabelWrong(field) ==
    /\ FileLines[field.line + 1][1] # field.label
    /\ \A other \in MetadataFields \ {field} :
          FileLines[other.line + 1] = BaseMetadata[other.line + 1]

(* C35: metadata errors name their field.  For each metadata field, a line *)
(* whose label does not match is rejected with the error variant of that   *)
(* same field; a wrong label on the midas_station_id line yields the       *)
(* Midas-station-id error and never the height error.                      *)
C35_LabelErrorNamesField ==
    MetadataRead =>
        \A field \in MetadataFields :
            OnlyLabelWrong(field) =>
                /\ proc.pc = "done"
                /\ proc.ret \in field.errors

----------------------------------------------------------------------------
(* C36: file properties from the file name.  For every data file name of   *)
(* the form c_t_u_county_id_name_qcv_year.csv, FileProperties::new returns *)
(* the eight underscore-separated components in that order, station_id     *)
(* being the number the fifth component spells (00144 gives 144) and year  *)
(* the number the eighth component spells before its extension.            *)
C36_PropertiesFromFileName ==
    \A k \in DOMAIN dataFiles : \A p \in NameParts :
        dataFiles[k].path = rawdata_dir \o DataFileName(p, <<".csv">>)
        => /\ FileProperties_new(dataFiles[k].path).kind = "Ok"
           /\ proc.pc = "listed" =>
                 proc.data_files[k] =
                    [path |-> dataFiles[k].path,
                     collection_name |-> <<p.collection_name>>,
                     title |-> <<p.title>>,
                     updated |-> <<p.updated>>,
                     county_name |-> <<p.county_name>>,
                     station_id |-> U32[p.station_id],
                     station_name |-> <<p.station_name>>,
                     qcv |-> <<p.qcv>>,
                     year |-> U32[p.year]]

(* the file name of the repository's own test *)
C36_Witness ==
    /\ proc.pc = "listed"
    /\ dataFiles =
          <<[path |-> rawdata_dir \o
                <<"midas-open", "_", "uk-hourly-weather-obs", "_", "dv-202407",
                  "_", "aberdeenshire", "_", "00144", "_",
                  "corgarff-castle-lodge", "_", "qcv-1", "_", "1997",
                  ".csv">>]>>
    /\ proc.data_files[1].station_id = 144
    /\ proc.data_files[1].year = 1997
    /\ proc.data_files[1].county_name = <<"aberdeenshire">>

----------------------------------------------------------------------------
(* C37: in ceda.rs, download_csv's skip-if-exists check tests the path the *)
(* write uses.  For every URL, also one whose last segment carries a       *)
(* suffix after ".csv", once a download of the URL has written its file    *)
(* and returned Ok, a later download of the same URL into the same         *)
(* directory finds the file and does not write.                            *)
C37_SecondDownloadSkips ==
    LET calls == tasks["download"]
    IN  \A i, j \in DOMAIN calls :
            (i < j /\ calls[i].result = "Ok" /\ calls[i].wrote)
            => ~calls[j].wrote
====
